---- MODULE Spec2Model ----
(***************************************************************************)
(* A model of the VIA MCP server: the knowledge-base index (src/kb.ts,     *)
(* second revision, lines 272-473), the access policy, the audit logger    *)
(* and the four gated corpus tools (src/unnamed/part_000).                 *)
(*                                                                         *)
(* JavaScript values are encoded as follows.                               *)
(*   - an optional value (undefined / null / a value) is the empty tuple   *)
(*     <<>> or the one-element tuple <<v>>;                                *)
(*   - text that is searched (titles, tags, document text, queries) is a   *)
(*     sequence of one-character strings; identifiers, reasons and         *)
(*     messages are TLA+ strings;                                          *)
(*   - a function that can throw returns [threw, message, value].          *)
(***************************************************************************)
EXTENDS Integers, Sequences, FiniteSets, TLC

(***************************************************************************)
(* Bounds of the model.                                                    *)
(***************************************************************************)
MaxTrust == 2

(***************************************************************************)
(* Optional values and small helpers.                                      *)
(***************************************************************************)
None == <<>>

Some(v) == <<v>>

\* x ?? d
OrElse(x, d) == IF x = None THEN d ELSE x[1]

Min(a, b) == IF a < b THEN a ELSE b

\* Array.prototype.slice(from, to) for 0 <= from
Slice(s, from, to) ==
    LET hi == Min(to, Len(s))
    IN  IF from >= hi THEN <<>> ELSE [i \in 1..(hi - from) |-> s[from + i]]

Threw(msg) == [threw |-> TRUE, message |-> msg, value |-> None]

Returned(v) == [threw |-> FALSE, message |-> "", value |-> Some(v)]

(***************************************************************************)
(* Text: String.prototype.toLowerCase, trim, join, split.                  *)
(***************************************************************************)
LowerChar(c) ==
    CASE c = "A" -> "a"
      [] c = "B" -> "b"
      [] OTHER -> c

ToLowerCase(s) == [i \in 1..Len(s) |-> LowerChar(s[i])]

IsSpace(c) == c \in {" ", "\n"}

RECURSIVE TrimStart(_)
TrimStart(s) ==
    IF s = <<>> THEN <<>>
    ELSE IF IsSpace(Head(s)) THEN TrimStart(Tail(s)) ELSE s

RECURSIVE TrimEnd(_)
TrimEnd(s) ==
    IF s = <<>> THEN <<>>
    ELSE IF IsSpace(s[Len(s)]) THEN TrimEnd(SubSeq(s, 1, Len(s) - 1)) ELSE s

Trim(s) == TrimEnd(TrimStart(s))

\* tags.join(" ")
RECURSIVE Join(_, _)
Join(parts, sep) ==
    IF parts = <<>> THEN <<>>
    ELSE IF Len(parts) = 1 THEN parts[1]
    ELSE parts[1] \o sep \o Join(Tail(parts), sep)

StartsWith(s, q) == Len(q) <= Len(s) /\ SubSeq(s, 1, Len(q)) = q

\* hay.split(q).length - 1 for a non-empty q: the occurrences of q found
\* scanning left to right, each match consuming its characters
RECURSIVE SplitCount(_, _)
SplitCount(hay, q) ==
    IF Len(hay) < Len(q) THEN 0
    ELSE IF StartsWith(hay, q)
         THEN 1 + SplitCount(SubSeq(hay, Len(q) + 1, Len(hay)), q)
         ELSE SplitCount(Tail(hay), q)

(***************************************************************************)
(* The corpus source: per corpus a manifest and the files it references.   *)
(* A markdown file is a sequence of lines; a line is a heading of level    *)
(* 1..6 or a plain line (level 0).                                         *)
(***************************************************************************)
Corpora == {"human", "technical"}

Line(level, text) == [level |-> level, text |-> text]

Files ==
    [ f \in {"h1.md", "h2.md", "t1.md"} |->
        CASE f = "h1.md" -> << Line(1, <<"A", "b">>), Line(0, <<"a", "b", "a">>) >>
          [] f = "h2.md" -> << Line(0, <<"a", " ", "a">>) >>
          [] f = "t1.md" -> << Line(2, <<"b">>), Line(0, <<"b", "a">>) >> ]

Entry(id, title, file, tags) == [id |-> id, title |-> title, file |-> file, tags |-> tags]

ManifestsFull ==
    [ human |-> << Entry("h1", <<"A", "b">>, "h1.md", << <<"a">>, <<"b">> >>),
                   Entry("h2", <<"b">>, "h2.md", None) >>,
      technical |-> << Entry("t1", <<"a">>, "t1.md", << <<"B">> >>) >> ]

ManifestsEmpty == [human |-> <<>>, technical |-> <<>>]

ManifestChoices == {ManifestsFull, ManifestsEmpty}

\* stripMarkdown on heading and plain lines: the hashes go, the lines stay
RECURSIVE StripLines(_)
StripLines(md) ==
    IF md = <<>> THEN <<>>
    ELSE IF Len(md) = 1 THEN md[1].text
    ELSE md[1].text \o <<"\n">> \o StripLines(Tail(md))

stripMarkdown(md) == Trim(StripLines(md))

RECURSIVE buildOutline(_)
buildOutline(md) ==
    IF md = <<>> THEN <<>>
    ELSE (IF md[1].level >= 1 /\ Trim(md[1].text) # <<>>
          THEN << [level |-> md[1].level, text |-> Trim(md[1].text)] >>
          ELSE <<>>) \o buildOutline(Tail(md))

loadCorpus(manifests, corpus) ==
    [ i \in 1..Len(manifests[corpus]) |->
        LET d == manifests[corpus][i]
            markdown == Files[d.file]
        IN  [ id |-> d.id,
              corpus |-> corpus,
              title |-> d.title,
              tags |-> OrElse(d.tags, <<>>),
              file |-> d.file,
              markdown |-> markdown,
              text |-> stripMarkdown(markdown),
              outline |-> buildOutline(markdown) ] ]

\* docs = [...human, ...technical]
kbInitDocs(manifests) == loadCorpus(manifests, "human") \o loadCorpus(manifests, "technical")

\* new Map(docs.map((d) => [d.id, d])): a later entry replaces an earlier one
kbInitById(ds) ==
    [ id \in {ds[i].id : i \in 1..Len(ds)} |->
        LET last == CHOOSE i \in 1..Len(ds) :
                        /\ ds[i].id = id
                        /\ \A j \in 1..Len(ds) : ds[j].id = id => j <= i
        IN  ds[last] ]

(***************************************************************************)
(* The state.                                                              *)
(*   docs, byId    the knowledge-base index (module variables of kb.ts)    *)
(*   policyStore   table kb_corpus_policy, one optional row per corpus     *)
(*   trustStore    table kb_requesters, one optional row per requester     *)
(*   auditLog      table kb_access_logs, the rows inserted so far          *)
(*   sessions      the session registry: session id -> {transport, server}*)
(*   call          per session, the gated tool call in flight              *)
(*   transports    the transport objects created so far, in creation order *)
(*   issued        the ids randomUUID has returned                         *)
(*   creates       per new session id, the POST /mcp request creating it   *)
(*   lastHttp      the last request routed by the express handlers and the *)
(*                 answer the handler itself gave                          *)
(***************************************************************************)
VARIABLES docs, byId, policyStore, trustStore, auditLog, sessions, call,
          transports, issued, creates, lastHttp, kbOut, kbBuild

vars == <<docs, byId, policyStore, trustStore, auditLog, sessions, call,
          transports, issued, creates, lastHttp, kbOut, kbBuild>>

\* the state of the session layer
httpVars == <<sessions, transports, issued, creates, lastHttp>>

(***************************************************************************)
(* kb.ts: the read operations on the index.                                *)
(***************************************************************************)
NotInitialized == "KB not initialized. Call kbInit()."

assertReady == IF Len(docs) = 0 THEN Threw(NotInitialized) ELSE Returned(TRUE)

\* docs.filter((d) => corpus ? d.corpus === corpus : true)
FilterCorpus(ds, corpus) ==
    SelectSeq(ds, LAMBDA d : corpus = None \/ d.corpus = corpus[1])

ListItem(d) ==
    [id |-> d.id, title |-> d.title, corpus |-> d.corpus, tags |-> d.tags, file |-> d.file]

kbList(corpus, limit, offset) ==
    IF assertReady.threw THEN assertReady
    ELSE LET lim == OrElse(limit, 20)
             off == OrElse(offset, 0)
             filtered == FilterCorpus(docs, corpus)
             sliced == Slice(filtered, off, off + lim)
         IN  Returned([ total |-> Len(filtered),
                        limit |-> lim,
                        offset |-> off,
                        results |-> [i \in 1..Len(sliced) |-> ListItem(sliced[i])] ])

UnknownId(id) == "Unknown document id: " \o id

\* kbGet, were the text format to return the markdown
kbGet_TextIsMarkdown(id, format) ==
    IF assertReady.threw THEN assertReady
    ELSE IF id \notin DOMAIN byId THEN Threw(UnknownId(id))
    ELSE LET d == byId[id]
             fmt == OrElse(format, "markdown")
         IN  Returned([ id |-> d.id, title |-> d.title, corpus |-> d.corpus, format |-> fmt,
                        content |-> CASE fmt = "markdown" -> [markdown |-> d.markdown]
                                      [] fmt = "text" -> [text |-> d.markdown]
                                      [] OTHER -> [headings |-> d.outline] ])

kbGet(id, format) ==
    IF assertReady.threw THEN assertReady
    ELSE IF id \notin DOMAIN byId THEN Threw(UnknownId(id))
    ELSE LET d == byId[id]
             fmt == OrElse(format, "markdown")
         IN  Returned([ id |-> d.id, title |-> d.title, corpus |-> d.corpus, format |-> fmt,
                        content |-> CASE fmt = "markdown" -> [markdown |-> d.markdown]
                                      [] fmt = "text" -> [text |-> d.text]
                                      [] OTHER -> [headings |-> d.outline] ])

Haystack(d) == ToLowerCase(d.title \o <<"\n">> \o Join(d.tags, <<" ">>) \o <<"\n">> \o d.text)

\* Array.prototype.sort((a, b) => b.score - a.score): stable
RECURSIVE InsertByScore_TiesReversed(_, _)
InsertByScore_TiesReversed(sorted, x) ==
    IF sorted = <<>> THEN <<x>>
    ELSE IF Head(sorted).score > x.score
         THEN <<Head(sorted)>> \o InsertByScore_TiesReversed(Tail(sorted), x)
         ELSE <<x>> \o sorted

RECURSIVE InsertByScore(_, _)
InsertByScore(sorted, x) ==
    IF sorted = <<>> THEN <<x>>
    ELSE IF Head(sorted).score >= x.score
         THEN <<Head(sorted)>> \o InsertByScore(Tail(sorted), x)
         ELSE <<x>> \o sorted

RECURSIVE SortByScore(_)
SortByScore(s) ==
    IF s = <<>> THEN <<>>
    ELSE InsertByScore(SortByScore(SubSeq(s, 1, Len(s) - 1)), s[Len(s)])

SearchItem(x) ==
    [id |-> x.d.id, title |-> x.d.title, corpus |-> x.d.corpus, tags |-> x.d.tags,
     score |-> x.score]

kbSearch(query, corpus, limit, offset) ==
    IF assertReady.threw THEN assertReady
    ELSE LET q == ToLowerCase(Trim(query))
             lim == OrElse(limit, 20)
             off == OrElse(offset, 0)
             all == IF corpus = None THEN "all" ELSE corpus[1]
         IN  IF q = <<>>
             THEN Returned([ query |-> query, corpus |-> all, total |-> 0, limit |-> lim,
                             offset |-> off, results |-> <<>> ])
             ELSE LET cand == FilterCorpus(docs, corpus)
                      mapped == [i \in 1..Len(cand) |->
                                    [d |-> cand[i], score |-> SplitCount(Haystack(cand[i]), q)]]
                      scored == SortByScore(SelectSeq(mapped, LAMBDA x : x.score > 0))
                      sliced == Slice(scored, off, off + lim)
                  IN  Returned([ query |-> query, corpus |-> all, total |-> Len(scored),
                                 limit |-> lim, offset |-> off,
                                 results |-> [i \in 1..Len(sliced) |-> SearchItem(sliced[i])] ])

\* kbRender, were its search not scoped to the audience
kbRender_Unscoped(query, audience) ==
    LET search == kbSearch(query, None, Some(3), None)
    IN  IF search.threw THEN search
        ELSE LET top == Slice(search.value[1].results, 0, 3)
             IN  Returned([ audience |-> audience, query |-> query,
                            sources |-> [i \in 1..Len(top) |-> top[i].id] ])

kbRender(query, audience) ==
    LET search == kbSearch(query, Some(audience), Some(3), None)
    IN  IF search.threw THEN search
        ELSE LET top == Slice(search.value[1].results, 0, 3)
             IN  Returned([ audience |-> audience, query |-> query,
                            sources |-> [i \in 1..Len(top) |-> top[i].id] ])

(***************************************************************************)
(* part_000: the policy and trust lookups and the access decision.         *)
(***************************************************************************)
PolicyRow(min_trust, mode) == [min_trust |-> min_trust, mode |-> mode]

TrustRow(trust_score, status) == [trust_score |-> trust_score, status |-> status]

\* supabase .from(table).select(...).eq(key).maybeSingle(): the row or null
\* as data, or an error and no data
maybeSingle(table, key, fails) ==
    IF fails THEN [data |-> None, error |-> TRUE]
    ELSE [data |-> table[key], error |-> FALSE]

\* getCorpusPolicy, were a failed lookup to close the corpus
getCorpusPolicy_FailClosed(res) ==
    IF res.error \/ res.data = None
    THEN [min_trust |-> 1, mode |-> "internal"]
    ELSE [ min_trust |-> OrElse(res.data[1].min_trust, 0),
           mode |-> OrElse(res.data[1].mode, "public") ]

getCorpusPolicy(res) ==
    IF res.error \/ res.data = None
    THEN [min_trust |-> 0, mode |-> "public"]
    ELSE [ min_trust |-> OrElse(res.data[1].min_trust, 0),
           mode |-> OrElse(res.data[1].mode, "public") ]

\* getRequesterTrust, were an unknown requester to start with score 1
getRequesterTrust_DefaultScoreOne(res) ==
    IF res.error \/ res.data = None
    THEN [trust_score |-> 1, status |-> "active"]
    ELSE [ trust_score |-> OrElse(res.data[1].trust_score, 0),
           status |-> OrElse(res.data[1].status, "active") ]

getRequesterTrust(res) ==
    IF res.error \/ res.data = None
    THEN [trust_score |-> 0, status |-> "active"]
    ELSE [ trust_score |-> OrElse(res.data[1].trust_score, 0),
           status |-> OrElse(res.data[1].status, "active") ]

Decision(ok, reason) == [ok |-> ok, reason |-> reason]

\* `trust_below_threshold:${policy.min_trust}`
BelowThreshold(min_trust) == "trust_below_threshold:" \o ToString(min_trust)

\* enforceKbAccess, were the threshold checked before the status
enforceKbAccess_ThresholdFirst(policy, requester) ==
    IF requester.trust_score < policy.min_trust
    THEN Decision(FALSE, BelowThreshold(policy.min_trust))
    ELSE IF requester.status = "blocked" THEN Decision(FALSE, "requester_blocked")
         ELSE Decision(TRUE, "allowed")

\* enforceKbAccess, were a score equal to the threshold too low
enforceKbAccess_StrictThreshold(policy, requester) ==
    IF requester.status = "blocked" THEN Decision(FALSE, "requester_blocked")
    ELSE IF requester.trust_score <= policy.min_trust
         THEN Decision(FALSE, BelowThreshold(policy.min_trust))
         ELSE Decision(TRUE, "allowed")

\* enforceKbAccess, were the reason to carry the requester's score
enforceKbAccess_ScoreInReason(policy, requester) ==
    IF requester.status = "blocked" THEN Decision(FALSE, "requester_blocked")
    ELSE IF requester.trust_score < policy.min_trust
         THEN Decision(FALSE, BelowThreshold(requester.trust_score))
         ELSE Decision(TRUE, "allowed")

\* enforceKbAccess, were a corpus of mode internal closed to everyone
enforceKbAccess_InternalClosed(policy, requester) ==
    IF requester.status = "blocked" THEN Decision(FALSE, "requester_blocked")
    ELSE IF policy.mode = "internal" \/ requester.trust_score < policy.min_trust
         THEN Decision(FALSE, BelowThreshold(policy.min_trust))
         ELSE Decision(TRUE, "allowed")

enforceKbAccess(policy, requester) ==
    IF requester.status = "blocked" THEN Decision(FALSE, "requester_blocked")
    ELSE IF requester.trust_score < policy.min_trust
         THEN Decision(FALSE, BelowThreshold(policy.min_trust))
         ELSE Decision(TRUE, "allowed")

(***************************************************************************)
(* part_000: the audit logger.                                             *)
(***************************************************************************)
LogParams(requester_type, requester_id, corpus, doc_ids, query, format, ok, error) ==
    [ requester_type |-> requester_type, requester_id |-> requester_id, corpus |-> corpus,
      doc_ids |-> doc_ids, query |-> query, format |-> format, ok |-> ok, error |-> error ]

\* the row logKbAccess inserts into kb_access_logs
LogPayload(sessionId, params) ==
    [ requester_type |-> params.requester_type,
      requester_id |-> params.requester_id,
      source |-> "mcp",
      session_id |-> sessionId,
      corpus |-> params.corpus,
      doc_ids |-> params.doc_ids,
      query |-> params.query,
      format |-> params.format,
      ok |-> params.ok,
      error |-> params.error ]

\* logKbAccess, were a failed insert thrown to the handler
logKbAccess_Throws(insertError) == [threw |-> insertError, reported |-> insertError]

\* what logKbAccess does with the insert's outcome: a failed insert is
\* written to console.error and logKbAccess returns normally
logKbAccess(insertError) == [threw |-> FALSE, reported |-> insertError]

(***************************************************************************)
(* part_000: the gated tools.                                              *)
(***************************************************************************)
GatedTools == {"kb_list", "kb_get", "kb_search", "kb_render"}

Args(requester, corpus, limit, offset, id, format, query, audience) ==
    [ requester_type |-> requester[1], requester_id |-> requester[2], corpus |-> corpus,
      limit |-> limit, offset |-> offset, id |-> id, format |-> format, query |-> query,
      audience |-> audience ]

Response(isError, text, json) == [isError |-> isError, text |-> text, json |-> json]

AccessDenied(reason) == Response(TRUE, "Access denied: " \o reason, None)

\* `list(limit=${effectiveLimit},offset=${effectiveOffset})`
PageFormat(name, args) ==
    name \o "(limit=" \o ToString(OrElse(args.limit, 20)) \o ",offset="
         \o ToString(OrElse(args.offset, 0)) \o ")"

\* the corpus the decision is asked for, once it is known
EffectiveCorpus(tool, args, meta) ==
    CASE tool = "kb_get" -> meta.corpus
      [] tool = "kb_render" -> args.audience[1]
      [] OTHER -> OrElse(args.corpus, "human")

\* the format column of the audit row
LogFormat(tool, args, ok) ==
    CASE tool = "kb_list" -> Some(PageFormat("list", args))
      [] tool = "kb_search" -> Some(PageFormat("search", args))
      [] tool = "kb_render" -> Some("render")
      [] OTHER -> IF ok THEN Some(OrElse(args.format, "markdown")) ELSE args.format

LogQuery(tool, args) ==
    IF tool \in {"kb_search", "kb_render"} THEN args.query ELSE None

\* the index operation of a tool, after access was granted
IndexOp(tool, args, corpus) ==
    CASE tool = "kb_list" ->
            kbList(Some(corpus), Some(OrElse(args.limit, 20)), Some(OrElse(args.offset, 0)))
      [] tool = "kb_get" -> kbGet(args.id[1], Some(OrElse(args.format, "markdown")))
      [] tool = "kb_search" ->
            kbSearch(args.query[1], Some(corpus), Some(OrElse(args.limit, 20)),
                     Some(OrElse(args.offset, 0)))
      [] OTHER -> kbRender(args.query[1], args.audience[1])

\* the doc_ids column of the audit row of a successful call
OrNull(ids) == IF Len(ids) = 0 THEN None ELSE Some(ids)

SuccessDocIds(tool, args, value) ==
    CASE tool = "kb_list" -> None
      [] tool = "kb_get" -> Some(<<args.id[1]>>)
      [] tool = "kb_search" ->
            OrNull(Slice([i \in 1..Len(value.results) |-> value.results[i].id], 0, 50))
      [] OTHER -> OrNull(value.sources)

\* the catch block of kb_get
GetErrorParams(args, message) ==
    LogParams(args.requester_type, args.requester_id, None, Some(<<args.id[1]>>), None,
              args.format, FALSE, Some(message))

GetErrorResponse(message) == Response(TRUE, "kb_get error: " \o message, None)

(***************************************************************************)
(* A call of a gated tool, from the handler's entry to its return.  The    *)
(* handler runs without interruption between two awaits, so there is one   *)
(* step per awaited reply: the policy row, the trust row, the insert.      *)
(*   events    the order in which the handler obtained the decision        *)
(*             ("enforce"), read the index ("index") and called the        *)
(*             audit logger ("log")                                        *)
(*   logged    the parameters of every logKbAccess call, in order          *)
(*   reported  the failed inserts logKbAccess wrote to console.error       *)
(*   result    what the caller receives; raised: the handler threw         *)
(***************************************************************************)
IdleCall ==
    [ pc |-> "idle", tool |-> "", args |-> None, corpus |-> None, policyRes |-> None,
      requesterRes |-> None, access |-> None, inTry |-> FALSE, reply |-> None,
      events |-> <<>>, logged |-> <<>>, reported |-> 0, result |-> None,
      raised |-> FALSE ]

\* the handler calls logKbAccess(params) and will return reply
CallLog(c, params, reply) ==
    [c EXCEPT !.pc = "log", !.reply = Some(reply), !.logged = Append(@, params),
              !.events = Append(@, "log")]

\* an exception leaves the handler: the tool call ends as an error result
Raise(c, message) ==
    [c EXCEPT !.pc = "done", !.raised = TRUE, !.result = Some(Response(TRUE, message, None))]

\* an exception at a point of the handler: the catch block of kb_get when
\* inside its try, otherwise out of the handler
Throw(c, message) ==
    IF c.inTry
    THEN CallLog([c EXCEPT !.inTry = FALSE], GetErrorParams(c.args[1], message),
                 GetErrorResponse(message))
    ELSE Raise(c, message)

\* handler entry, up to the first await
Enter(c, tool, args) ==
    LET c1 == [c EXCEPT !.tool = tool, !.args = Some(args)]
    IN  IF tool = "kb_get"
        THEN LET meta == kbGet(args.id[1], Some("outline_json"))
                 c2 == [c1 EXCEPT !.inTry = TRUE, !.events = Append(@, "index")]
             IN  IF meta.threw THEN Throw(c2, meta.message)
                 ELSE [c2 EXCEPT !.pc = "policy",
                                 !.corpus = Some(EffectiveCorpus(tool, args, meta.value[1]))]
        ELSE [c1 EXCEPT !.pc = "policy", !.corpus = Some(EffectiveCorpus(tool, args, None))]

\* the denied path, were it to log no document id
DeniedParams_NoDocIds(c, reason) ==
    LET a == c.args[1]
    IN  LogParams(a.requester_type, a.requester_id, c.corpus, None,
                  LogQuery(c.tool, a), LogFormat(c.tool, a, FALSE), FALSE, Some(reason))

DeniedParams(c, reason) ==
    LET a == c.args[1]
    IN  LogParams(a.requester_type, a.requester_id, c.corpus,
                  IF c.tool = "kb_get" THEN Some(<<a.id[1]>>) ELSE None,
                  LogQuery(c.tool, a), LogFormat(c.tool, a, FALSE), FALSE, Some(reason))

SuccessParams(c, value) ==
    LET a == c.args[1]
    IN  LogParams(a.requester_type, a.requester_id, c.corpus,
                  SuccessDocIds(c.tool, a, value), LogQuery(c.tool, a),
                  LogFormat(c.tool, a, TRUE), TRUE, None)

\* the handler from the decision to its next await
AfterAccess(c, access) ==
    LET c1 == [c EXCEPT !.access = Some(access), !.events = Append(@, "enforce")]
    IN  IF ~access.ok
        THEN CallLog(c1, DeniedParams(c1, access.reason), AccessDenied(access.reason))
        ELSE LET op == IndexOp(c.tool, c.args[1], c.corpus[1])
                 c2 == [c1 EXCEPT !.events = Append(@, "index")]
             IN  IF op.threw THEN Throw(c2, op.message)
                 ELSE CallLog(c2, SuccessParams(c2, op.value[1]),
                              Response(FALSE, "", op.value))

\* the handler from the return of logKbAccess to its own return
AfterLog(c, outcome) ==
    LET c1 == [c EXCEPT !.reported = @ + (IF outcome.reported THEN 1 ELSE 0)]
    IN  IF outcome.threw THEN Throw(c1, "kb_access_logs insert failed")
        ELSE [c1 EXCEPT !.pc = "done", !.result = c.reply]

(***************************************************************************)
(* The inputs: store contents, requesters and tool arguments.              *)
(***************************************************************************)
SessionIds == {"s1", "s2"}

Requesters == {<<"agent", "A1">>}

\* trust scores and thresholds, null included
Scores == {None} \cup {Some(n) : n \in -1..MaxTrust}

ModeOf(n) == CASE n <= 0 -> "public" [] n = 1 -> "gated" [] OTHER -> "internal"

PolicyRows ==
    {None, Some(PolicyRow(None, None))}
        \cup {Some(PolicyRow(Some(n), Some(ModeOf(n)))) : n \in -1..MaxTrust}

TrustRows ==
    {None} \cup {Some(TrustRow(ts, st)) :
                    ts \in Scores, st \in {None, Some("active"), Some("blocked")}}

Pagings == {<<None, None>>, <<Some(1), Some(1)>>}

Queries == {<<"a">>, <<"A", "b">>, <<" ">>}

DocIds == {"h1", "t1", "zz"}

Formats == {None, Some("markdown"), Some("text"), Some("outline_json")}

OptCorpora == {None} \cup {Some(c) : c \in Corpora}

\* the argument objects that pass each tool's inputSchema
ToolArgs(tool, r) ==
    CASE tool = "kb_list" ->
            {Args(r, c, p[1], p[2], None, None, None, None) : c \in OptCorpora, p \in Pagings}
      [] tool = "kb_get" ->
            {Args(r, None, None, None, Some(id), f, None, None) : id \in DocIds, f \in Formats}
      [] tool = "kb_search" ->
            {Args(r, c, p[1], p[2], None, None, Some(q), None) :
                c \in OptCorpora, p \in Pagings, q \in Queries}
      [] OTHER ->
            {Args(r, None, None, None, None, None, Some(q), Some(a)) :
                q \in Queries, a \in Corpora}

(***************************************************************************)
(* part_000: the session store and the requests of the express routes.     *)
(* A header value is a sequence of pieces, each a blank or a token; a body *)
(* is empty, not JSON, or JSON: a falsy value, one message or an array of  *)
(* messages.                                                               *)
(***************************************************************************)
EmptyMap == [k \in {} |-> None]

\* type Session = { transport, server }: the transport object and the
\* server built for the session id
\* the registry entry, were every session to hold the transport made first
Session_SharedTransport(transport, server) == [transport |-> 1, server |-> server]

Session(transport, server) == [transport |-> transport, server |-> server]

\* new StreamableHTTPServerTransport({ sessionIdGenerator: () => newSessionId })
Transport(sessionId) ==
    [ sessionId |-> sessionId, onclose |-> None, started |-> FALSE,
      initialized |-> FALSE, closed |-> FALSE ]

\* the transport of a session whose initialize request was answered
ActiveTransport(sessionId) ==
    [Transport(sessionId) EXCEPT !.onclose = Some(sessionId), !.started = TRUE,
                                 !.initialized = TRUE]

\* const v = req.header("mcp-session-id"); v && v.trim() ? v.trim() : undefined
getSessionId(header) ==
    IF header = None THEN None
    ELSE IF header[1] = <<>> \/ Trim(header[1]) = <<>> THEN None
    ELSE Some(Trim(header[1])[1])

Msg(jsonrpc, method) == [jsonrpc |-> jsonrpc, method |-> method]

Json(kind, items) == [raw |-> "json", kind |-> kind, items |-> items]

EmptyBody == [raw |-> "empty", kind |-> "", items |-> <<>>]

InvalidBody == [raw |-> "invalid", kind |-> "", items |-> <<>>]

\* Parse, were a body that is not JSON taken for no body
Parse_InvalidIsUndefined(body) ==
    CASE body.raw = "empty" -> Returned(None)
      [] body.raw = "invalid" -> Returned(None)
      [] OTHER -> Returned(Some(body))

\* raw ? JSON.parse(raw) : undefined
Parse(body) ==
    CASE body.raw = "empty" -> Returned(None)
      [] body.raw = "invalid" -> Threw("Invalid JSON body")
      [] OTHER -> Returned(Some(body))

\* x?.jsonrpc === "2.0" && x?.method === "initialize"
IsInitMsg(x) == x.jsonrpc = "2.0" /\ x.method = "initialize"

\* isInitialize, were the method not compared
isInitialize_AnyMethod(parsedBody) ==
    IF parsedBody = None \/ parsedBody[1].kind = "falsy" THEN FALSE
    ELSE IF parsedBody[1].kind = "array"
         THEN \E i \in 1..Len(parsedBody[1].items) : parsedBody[1].items[i].jsonrpc = "2.0"
         ELSE parsedBody[1].items[1].jsonrpc = "2.0"

\* isInitialize, were only the first element of a batch looked at
isInitialize_FirstOnly(parsedBody) ==
    IF parsedBody = None \/ parsedBody[1].kind = "falsy" THEN FALSE
    ELSE IF parsedBody[1].kind = "array"
         THEN Len(parsedBody[1].items) > 0 /\ IsInitMsg(parsedBody[1].items[1])
         ELSE IsInitMsg(parsedBody[1].items[1])

isInitialize(parsedBody) ==
    IF parsedBody = None \/ parsedBody[1].kind = "falsy" THEN FALSE
    ELSE IF parsedBody[1].kind = "array"
         THEN \E i \in 1..Len(parsedBody[1].items) : IsInitMsg(parsedBody[1].items[i])
         ELSE IsInitMsg(parsedBody[1].items[1])

\* randomUUID, were it to return ids it has returned before
randomUUID_Repeats(used) == SessionIds

\* randomUUID(): an id never returned before
randomUUID(used) == SessionIds \ used

\* dispose, were the removal of an absent id to reset the registry
dispose_AbsentResets(registry, id) ==
    IF id \in DOMAIN registry
    THEN [k \in DOMAIN registry \ {id} |-> registry[k]]
    ELSE [k \in {} |-> None]

\* delete sessions[id]
dispose(registry, id) == [k \in DOMAIN registry \ {id} |-> registry[k]]

\* sessions[id] = session
register(registry, id, session) ==
    [k \in DOMAIN registry \cup {id} |-> IF k = id THEN session ELSE registry[k]]

NoHttp ==
    [ method |-> "", header |-> None, body |-> EmptyBody, status |-> 0,
      outcome |-> "", transport |-> 0, newId |-> "" ]

\* what kbInit reads: the manifests of the two corpora and the files, and
\* which of them (a corpus name for its manifest.json, a file name) cannot
\* be read
CorpusSource(manifests, unreadable) == [manifests |-> manifests, unreadable |-> unreadable]

\* a run of kbInit: the await it is at (pc), the corpus and entry being
\* loaded, the array out of loadCorpus and the loaded human corpus
Build(pc, source, corpus, i, out, human) ==
    [pc |-> pc, source |-> source, corpus |-> corpus, i |-> i, out |-> out, human |-> human]

\* kbInit has returned for readable manifests m
Built(m) == Build("done", CorpusSource(m, {}), "technical", 0, <<>>, <<>>)

\* an index read and what it gave; walk is the concatenation of the pages a
\* client has fetched so far when it pages through kbList from offset 0
IndexRead(op, query, corpus, limit, offset, result, walk) ==
    [ op |-> op, query |-> query, corpus |-> corpus, limit |-> limit, offset |-> offset,
      result |-> result, walk |-> walk, id |-> "", format |-> None ]

\* a kbGet call and what it gave
GetRead(id, format, result) ==
    [IndexRead("kbGet", <<>>, None, None, None, result, None) EXCEPT
        !.id = id, !.format = format]

NoRead == IndexRead("", <<>>, None, None, None, Returned(<<>>), None)

(***************************************************************************)
(* Init and the actions.                                                   *)
(***************************************************************************)
Init ==
    /\ \E m \in ManifestChoices :
          /\ docs = kbInitDocs(m)
          /\ byId = kbInitById(kbInitDocs(m))
          /\ kbBuild = Built(m)
    /\ policyStore \in [Corpora -> PolicyRows]
    /\ trustStore \in [Requesters -> TrustRows]
    /\ auditLog = <<>>
    /\ sessions = [id \in {"s1"} |-> Session(1, "s1")]
    /\ transports = << ActiveTransport("s1") >>
    /\ issued = {"s1"}
    /\ creates = EmptyMap
    /\ lastHttp = NoHttp
    /\ kbOut = NoRead
    /\ call = [s \in SessionIds |-> IdleCall]

\* a client calls a gated tool on session s with valid arguments
Invoke(s) ==
    /\ s \in DOMAIN sessions
    /\ call[s].pc = "idle"
    /\ \E tool \in GatedTools, r \in Requesters :
         \E args \in ToolArgs(tool, r) :
            call' = [call EXCEPT ![s] = Enter(@, tool, args)]
    /\ UNCHANGED <<kbOut, docs, byId, kbBuild, policyStore, trustStore, auditLog, httpVars>>

\* PolicyReply, were the lookups of all requests to go through one queue
\* that hands out a reply only when no other request is waiting
PolicyReply_Serialized(s) ==
    /\ call[s].pc = "policy"
    /\ \A o \in SessionIds \ {s} : call[o].pc \in {"idle", "done"}
    /\ \E fails \in BOOLEAN :
          call' = [call EXCEPT ![s].pc = "trust",
                               ![s].policyRes =
                                   Some(maybeSingle(policyStore, call[s].corpus[1], fails))]
    /\ UNCHANGED <<kbOut, docs, byId, kbBuild, policyStore, trustStore, auditLog, httpVars>>

\* the policy query of getCorpusPolicy returns; the trust query is issued
PolicyReply(s) ==
    /\ call[s].pc = "policy"
    /\ \E fails \in BOOLEAN :
          call' = [call EXCEPT ![s].pc = "trust",
                               ![s].policyRes =
                                   Some(maybeSingle(policyStore, call[s].corpus[1], fails))]
    /\ UNCHANGED <<kbOut, docs, byId, kbBuild, policyStore, trustStore, auditLog, httpVars>>

\* TrustReply, were the decision last recorded for the requester and the
\* corpus used again
TrustReply_CachedDecision(s) ==
    /\ call[s].pc = "trust"
    /\ \E fails \in BOOLEAN :
          LET c == call[s]
              key == <<c.args[1].requester_type, c.args[1].requester_id>>
              res == maybeSingle(trustStore, key, fails)
              prior == {i \in 1..Len(auditLog) :
                           /\ auditLog[i].requester_id = c.args[1].requester_id
                           /\ auditLog[i].corpus = c.corpus}
              last == auditLog[CHOOSE i \in prior : \A j \in prior : j <= i]
              access == IF prior = {}
                        THEN enforceKbAccess(getCorpusPolicy(c.policyRes[1]),
                                             getRequesterTrust(res))
                        ELSE IF last.ok THEN Decision(TRUE, "allowed")
                        ELSE Decision(FALSE, last.error[1])
          IN  call' = [call EXCEPT ![s] =
                          AfterAccess([c EXCEPT !.requesterRes = Some(res)], access)]
    /\ UNCHANGED <<kbOut, docs, byId, kbBuild, policyStore, trustStore, auditLog, httpVars>>

\* the trust query of getRequesterTrust returns; enforceKbAccess decides
\* and the handler goes on to its next await
TrustReply(s) ==
    /\ call[s].pc = "trust"
    /\ \E fails \in BOOLEAN :
          LET c == call[s]
              key == <<c.args[1].requester_type, c.args[1].requester_id>>
              res == maybeSingle(trustStore, key, fails)
              access == enforceKbAccess(getCorpusPolicy(c.policyRes[1]),
                                        getRequesterTrust(res))
          IN  call' = [call EXCEPT ![s] =
                          AfterAccess([c EXCEPT !.requesterRes = Some(res)], access)]
    /\ UNCHANGED <<kbOut, docs, byId, kbBuild, policyStore, trustStore, auditLog, httpVars>>

\* LogReply, were sessionId one variable of the module that holds the id of
\* the session created last
LogReply_LastCreated(s) ==
    /\ call[s].pc = "log"
    /\ \E insertError \in BOOLEAN :
          LET c == call[s]
              row == LogPayload(transports[Len(transports)].sessionId, c.logged[Len(c.logged)])
          IN  /\ auditLog' = IF insertError THEN auditLog ELSE Append(auditLog, row)
              /\ call' = [call EXCEPT ![s] = AfterLog(c, logKbAccess(insertError))]
    /\ UNCHANGED <<kbOut, docs, byId, kbBuild, policyStore, trustStore, httpVars>>

\* the insert of logKbAccess returns, with or without an error
LogReply(s) ==
    /\ call[s].pc = "log"
    /\ \E insertError \in BOOLEAN :
          LET c == call[s]
              row == LogPayload(s, c.logged[Len(c.logged)])
          IN  /\ auditLog' = IF insertError THEN auditLog ELSE Append(auditLog, row)
              /\ call' = [call EXCEPT ![s] = AfterLog(c, logKbAccess(insertError))]
    /\ UNCHANGED <<kbOut, docs, byId, kbBuild, policyStore, trustStore, httpVars>>

Next ==
    \E s \in SessionIds :
        \/ Invoke(s)
        \/ PolicyReply(s)
        \/ TrustReply(s)
        \/ LogReply(s)

Spec == Init /\ [][Next]_vars

(***************************************************************************)
(* The express routes of /mcp.  A handler runs without interruption up to  *)
(* its first await.  What the transport does with a request handed to it   *)
(* is the SDK's: it serves tools/call messages once its initialize request *)
(* was accepted, and it closes itself on a DELETE.                         *)
(***************************************************************************)
InitMsg == Msg("2.0", "initialize")

CallMsg == Msg("2.0", "tools/call")

Headers == {None, Some(<<" ">>), Some(<<"s1">>), Some(<<" ", "s2">>), Some(<<"zz">>)}

Bodies ==
    { EmptyBody, InvalidBody, Json("falsy", <<>>),
      Json("object", <<InitMsg>>), Json("object", <<CallMsg>>),
      Json("object", <<Msg("1.0", "initialize")>>),
      Json("array", <<CallMsg, InitMsg>>), Json("array", <<InitMsg, CallMsg>>),
      Json("array", <<CallMsg>>), Json("array", <<>>) }

\* the tool calls a client sends in this specification
SessionToolCalls ==
    { <<"kb_list", Args(<<"agent", "A1">>, None, None, None, None, None, None, None)>>,
      <<"kb_get", Args(<<"agent", "A1">>, None, None, None, Some("t1"), None, None, None)>> }

Answer(method, header, body, status, outcome, transport, newId) ==
    [ method |-> method, header |-> header, body |-> body,
      status |-> status, outcome |-> outcome, transport |-> transport, newId |-> newId ]

\* res.status(400) of the routes
Reject(method, header, body, outcome) ==
    /\ lastHttp' = Answer(method, header, body, 400, outcome, 0, "")
    /\ UNCHANGED <<kbOut, docs, byId, kbBuild, policyStore, trustStore, auditLog, call, sessions,
                   transports, issued, creates>>

HasCall(body) ==
    /\ body.raw = "json"
    /\ \E i \in 1..Len(body.items) : body.items[i] = CallMsg

\* onclose, were it to empty the registry
onclose_DropsAll(registry, t) ==
    IF transports[t].onclose = None THEN registry
    ELSE [k \in {} |-> None]

\* transport.onclose = () => { delete sessions[newSessionId]; }
onclose(registry, t) ==
    IF transports[t].onclose = None THEN registry
    ELSE dispose(registry, transports[t].onclose[1])

\* await sessions[sessionId].transport.handleRequest(req, res, parsed)
Delegate(method, header, body, sessionId) ==
    LET t == sessions[sessionId].transport
        serving == transports[t].initialized /\ ~transports[t].closed
    IN  /\ lastHttp' = Answer(method, header, body, 0, "delegated", t, "")
        /\ IF method = "DELETE" /\ serving
           THEN /\ transports' = [transports EXCEPT ![t].closed = TRUE]
                /\ sessions' = onclose(sessions, t)
                /\ UNCHANGED call
           ELSE IF method = "POST" /\ serving /\ HasCall(body)
           THEN /\ call[sessions[sessionId].server].pc = "idle"
                /\ \E tc \in SessionToolCalls :
                      call' = [call EXCEPT ![sessions[sessionId].server] =
                                  Enter(@, tc[1], tc[2])]
                /\ UNCHANGED <<sessions, transports>>
           ELSE UNCHANGED <<call, sessions, transports>>
        /\ UNCHANGED <<kbOut, docs, byId, kbBuild, policyStore, trustStore, auditLog, issued, creates>>

\* the branch of app.post that creates a session, up to await server.connect
Create(header, body) ==
    \E newSessionId \in randomUUID(issued) :
        LET t == Len(transports) + 1
        IN  /\ issued' = issued \cup {newSessionId}
            /\ transports' = Append(transports,
                                [Transport(newSessionId) EXCEPT !.onclose = Some(newSessionId)])
            /\ sessions' = register(sessions, newSessionId, Session(t, newSessionId))
            /\ creates' = [k \in DOMAIN creates \cup {newSessionId} |->
                              IF k = newSessionId
                              THEN [pc |-> "connect", transport |-> t, status |-> 0]
                              ELSE creates[k]]
            /\ lastHttp' = Answer("POST", header, body, 0, "creating", t, newSessionId)
            /\ UNCHANGED <<kbOut, docs, byId, kbBuild, policyStore, trustStore, auditLog, call>>

\* app.post, were an initialize payload to create a session whatever the
\* session header
PostMcp_InitIgnoresToken(header, body) ==
    LET sessionId == getSessionId(header)
        parsed == Parse(body)
    IN  IF parsed.threw THEN Reject("POST", header, body, "invalid_json")
        ELSE IF sessionId # None /\ sessionId[1] \in DOMAIN sessions
             THEN Delegate("POST", header, body, sessionId[1])
        ELSE IF isInitialize(parsed.value[1])
             THEN Create(header, body)
        ELSE Reject("POST", header, body, "bad_request")

\* app.post("/mcp")
PostMcp(header, body) ==
    LET sessionId == getSessionId(header)
        parsed == Parse(body)
    IN  IF parsed.threw THEN Reject("POST", header, body, "invalid_json")
        ELSE IF sessionId # None /\ sessionId[1] \in DOMAIN sessions
             THEN Delegate("POST", header, body, sessionId[1])
        ELSE IF sessionId = None /\ isInitialize(parsed.value[1])
             THEN Create(header, body)
        ELSE Reject("POST", header, body, "bad_request")

\* app.get("/mcp")
GetMcp(header) ==
    LET sessionId == getSessionId(header)
    IN  IF sessionId = None \/ sessionId[1] \notin DOMAIN sessions
        THEN Reject("GET", header, EmptyBody, "bad_request")
        ELSE Delegate("GET", header, EmptyBody, sessionId[1])

\* app.delete("/mcp")
DeleteMcp(header) ==
    LET sessionId == getSessionId(header)
    IN  IF sessionId = None \/ sessionId[1] \notin DOMAIN sessions
        THEN Reject("DELETE", header, EmptyBody, "bad_request")
        ELSE Delegate("DELETE", header, EmptyBody, sessionId[1])

\* await server.connect(transport) returns or throws; a throw is answered
\* with status 500 by the catch of app.post
ConnectReply(id) ==
    /\ id \in DOMAIN creates
    /\ creates[id].pc = "connect"
    /\ \E ok \in BOOLEAN :
          IF ok
          THEN /\ transports' = [transports EXCEPT ![creates[id].transport].started = TRUE]
               /\ creates' = [creates EXCEPT ![id].pc = "handle"]
          ELSE /\ creates' = [creates EXCEPT ![id].pc = "done", ![id].status = 500]
               /\ UNCHANGED transports
    /\ UNCHANGED <<kbOut, docs, byId, kbBuild, policyStore, trustStore, auditLog, call, sessions, issued,
                   lastHttp>>

\* await transport.handleRequest(req, res, parsed) of the creating request:
\* the transport accepts the initialize request, rejects it, or throws
HandleReply(id) ==
    /\ id \in DOMAIN creates
    /\ creates[id].pc = "handle"
    /\ \E outcome \in {"accepted", "rejected", "threw"} :
          /\ outcome = "accepted" => ~transports[creates[id].transport].closed
          /\ transports' = IF outcome = "accepted"
                           THEN [transports EXCEPT ![creates[id].transport].initialized = TRUE]
                           ELSE transports
          /\ creates' = [creates EXCEPT
                            ![id].pc = "done",
                            ![id].status = CASE outcome = "accepted" -> 200
                                             [] outcome = "rejected" -> 400
                                             [] OTHER -> 500]
    /\ UNCHANGED <<kbOut, docs, byId, kbBuild, policyStore, trustStore, auditLog, call, sessions, issued,
                   lastHttp>>

\* a started transport reports close, for the first time or again
TransportClose(t) ==
    /\ t \in 1..Len(transports)
    /\ transports[t].started
    /\ transports' = [transports EXCEPT ![t].closed = TRUE]
    /\ sessions' = onclose(sessions, t)
    /\ UNCHANGED <<kbOut, docs, byId, kbBuild, policyStore, trustStore, auditLog, call, issued, creates,
                   lastHttp>>

SessionInit ==
    /\ docs = kbInitDocs(ManifestsFull)
    /\ byId = kbInitById(kbInitDocs(ManifestsFull))
    /\ kbBuild = Built(ManifestsFull)
    /\ policyStore = [c \in Corpora |->
                         IF c = "technical" THEN Some(PolicyRow(Some(1), Some("gated")))
                         ELSE None]
    /\ trustStore = [r \in Requesters |-> None]
    /\ auditLog = <<>>
    /\ sessions = EmptyMap
    /\ transports = <<>>
    /\ issued = {}
    /\ creates = EmptyMap
    /\ lastHttp = NoHttp
    /\ kbOut = NoRead
    /\ call = [s \in SessionIds |-> IdleCall]

SessionNext ==
    \/ \E header \in Headers, body \in Bodies : PostMcp(header, body)
    \/ \E header \in Headers : GetMcp(header)
    \/ \E header \in Headers : DeleteMcp(header)
    \/ \E id \in SessionIds : ConnectReply(id)
    \/ \E id \in SessionIds : HandleReply(id)
    \/ \E t \in 1..Len(transports) : TransportClose(t)

SessionSpec == SessionInit /\ [][SessionNext]_vars

(***************************************************************************)
(* The index on its own: it is built once by kbInit from the manifests of  *)
(* the two corpora and then only read.  The reads are kbList and kbSearch  *)
(* with every corpus filter and paging; a client may page through kbList,  *)
(* asking for the page that follows the one it got.                        *)
(***************************************************************************)
MaxPerCorpus == 2

MaxLimit == 2

MaxOffset == 2

\* a manifest pair with nh human and nt technical documents
ManifestOf(nh, nt) ==
    [ human |-> [i \in 1..nh |-> Entry("h" \o ToString(i), <<"a", "a", "a">>, "h1.md", None)],
      technical |-> [i \in 1..nt |-> Entry("t" \o ToString(i), <<"b">>, "t1.md", << <<"a">> >>)] ]

KbManifests ==
    {ManifestsFull, ManifestOf(25, 0)}
        \cup {ManifestOf(nh, nt) : nh \in 0..MaxPerCorpus, nt \in 0..MaxPerCorpus}

Limits == {None} \cup {Some(n) : n \in 1..MaxLimit} \cup {Some(10)}

Offsets == {None} \cup {Some(n) : n \in 0..MaxOffset} \cup {Some(20)}

KbQueries == Queries \cup {<<>>, <<" ", " ">>, <<"b">>, <<" ", "B">>, <<"a", "a">>}

KbDocIds == DocIds \cup {"h2", "t2"}

SearchPagings == Pagings \cup {<<Some(MaxLimit), None>>}

\* kbList(corpus, { limit, offset })
KbList(corpus, limit, offset) ==
    LET r == kbList(corpus, limit, offset)
    IN  /\ kbOut' = IndexRead("kbList", <<>>, corpus, limit, offset, r,
                              IF OrElse(offset, 0) = 0 /\ OrElse(limit, 20) >= 1 /\ ~r.threw
                              THEN Some(r.value[1].results) ELSE None)
        /\ UNCHANGED <<docs, byId, kbBuild, policyStore, trustStore, auditLog, call, httpVars>>

\* the client asks for the page after the one it has, until a page is empty
KbListNextPage ==
    /\ kbOut.op = "kbList"
    /\ kbOut.walk # None
    /\ kbOut.result.value[1].results # <<>>
    /\ LET lim == OrElse(kbOut.limit, 20)
           off == OrElse(kbOut.offset, 0) + lim
           r == kbList(kbOut.corpus, Some(lim), Some(off))
       IN  kbOut' = IndexRead("kbList", <<>>, kbOut.corpus, Some(lim), Some(off), r,
                              IF r.threw THEN None
                              ELSE Some(kbOut.walk[1] \o r.value[1].results))
    /\ UNCHANGED <<docs, byId, kbBuild, policyStore, trustStore, auditLog, call, httpVars>>

\* kbSearch, were it to sort the module's docs array itself by score
KbSearch_SortsDocs(query, corpus, limit, offset) ==
    /\ kbOut' = IndexRead("kbSearch", query, corpus, limit, offset,
                          kbSearch(query, corpus, limit, offset), None)
    /\ docs' = LET q == ToLowerCase(Trim(query))
                   scored == SortByScore([i \in 1..Len(docs) |->
                                 [d |-> docs[i],
                                  score |-> IF q = <<>> THEN 0
                                            ELSE SplitCount(Haystack(docs[i]), q)]])
               IN  [i \in 1..Len(scored) |-> scored[i].d]
    /\ UNCHANGED <<byId, kbBuild, policyStore, trustStore, auditLog, call, httpVars>>

\* kbSearch(query, corpus, { limit, offset })
KbSearch(query, corpus, limit, offset) ==
    /\ kbOut' = IndexRead("kbSearch", query, corpus, limit, offset,
                          kbSearch(query, corpus, limit, offset), None)
    /\ UNCHANGED <<docs, byId, kbBuild, policyStore, trustStore, auditLog, call, httpVars>>

\* kbGet(id, format)
KbGet(id, format) ==
    /\ kbOut' = GetRead(id, format, kbGet(id, format))
    /\ UNCHANGED <<docs, byId, kbBuild, policyStore, trustStore, auditLog, call, httpVars>>

\* kbRender(query, audience)
KbRender(query, audience) ==
    /\ kbOut' = IndexRead("kbRender", query, Some(audience), None, None,
                          kbRender(query, audience), None)
    /\ UNCHANGED <<docs, byId, kbBuild, policyStore, trustStore, auditLog, call, httpVars>>

KbInit ==
    /\ \E m \in KbManifests :
          /\ docs = kbInitDocs(m)
          /\ byId = kbInitById(kbInitDocs(m))
          /\ kbBuild = Built(m)
    /\ policyStore = [c \in Corpora |-> None]
    /\ trustStore = [r \in Requesters |-> None]
    /\ auditLog = <<>>
    /\ sessions = EmptyMap
    /\ transports = <<>>
    /\ issued = {}
    /\ creates = EmptyMap
    /\ lastHttp = NoHttp
    /\ kbOut = NoRead
    /\ call = [s \in SessionIds |-> IdleCall]

KbNext ==
    \/ \E corpus \in OptCorpora, limit \in Limits, offset \in Offsets :
          KbList(corpus, limit, offset)
    \/ KbListNextPage
    \/ \E query \in KbQueries, corpus \in OptCorpora, paging \in SearchPagings :
          KbSearch(query, corpus, paging[1], paging[2])
    \/ \E id \in KbDocIds, format \in Formats : KbGet(id, format)
    \/ \E query \in KbQueries, audience \in Corpora : KbRender(query, audience)

KbSpec == KbInit /\ [][KbNext]_vars

(***************************************************************************)
(* The build of the index.  The module starts with docs = [] and an empty  *)
(* byId; kbInit awaits the manifest of the human corpus, each file it      *)
(* lists, then the same for the technical corpus, and assigns docs and     *)
(* byId after the last await.  There is one step per await.  A read that   *)
(* fails (readFile rejects, JSON.parse throws) ends kbInit with that       *)
(* error.  list, get, search and render may be called at any time.         *)
(***************************************************************************)
\* two corpora that use one id, a corpus that uses an id twice, and entries
\* whose id or title is the empty string
ManifestsSharedId ==
    [ human |-> << Entry("h1", <<"A", "b">>, "h1.md", None) >>,
      technical |-> << Entry("h1", <<"a">>, "t1.md", None) >> ]

ManifestsRepeatedId ==
    [ human |-> << Entry("h1", <<"A", "b">>, "h1.md", None),
                   Entry("h1", <<"b">>, "h2.md", None) >>,
      technical |-> <<>> ]

ManifestsEmptyId ==
    [ human |-> << Entry("", <<"A", "b">>, "h1.md", None) >>,
      technical |-> << Entry("t1", <<"a">>, "t1.md", << <<"B">> >>) >> ]

ManifestsEmptyTitle ==
    [ human |-> << Entry("h1", <<>>, "h1.md", << <<"a">> >>) >>,
      technical |-> <<>> ]

BuildManifests ==
    { ManifestsFull, ManifestsEmpty, ManifestsSharedId, ManifestsRepeatedId,
      ManifestsEmptyId, ManifestsEmptyTitle }

Unreadables == { {}, {"human"}, {"technical"}, {"h2.md"}, {"t1.md"} }

BuildSources == {CorpusSource(m, u) : m \in BuildManifests, u \in Unreadables}

\* docs = [...human, ...technical]; byId = new Map(...), and kbInit returns
Publish(b, human, technical) ==
    /\ docs' = human \o technical
    /\ byId' = kbInitById(human \o technical)
    /\ kbBuild' = Build("done", b.source, "technical", 0, <<>>, <<>>)

\* loadCorpus has returned out for b.corpus
CorpusLoaded(b, out) ==
    IF b.corpus = "human"
    THEN /\ kbBuild' = Build("manifest", b.source, "technical", 0, <<>>, out)
         /\ UNCHANGED <<docs, byId>>
    ELSE Publish(b, b.human, out)

Fail(b) ==
    /\ kbBuild' = Build("failed", b.source, b.corpus, b.i, <<>>, <<>>)
    /\ UNCHANGED <<docs, byId>>

\* await loadManifest(corpus) in loadCorpus
ReadManifest ==
    /\ kbBuild.pc = "manifest"
    /\ IF kbBuild.corpus \in kbBuild.source.unreadable
       THEN Fail(kbBuild)
       ELSE IF Len(kbBuild.source.manifests[kbBuild.corpus]) = 0
            THEN CorpusLoaded(kbBuild, <<>>)
            ELSE /\ kbBuild' = [kbBuild EXCEPT !.pc = "file", !.i = 1, !.out = <<>>]
                 /\ UNCHANGED <<docs, byId>>
    /\ UNCHANGED <<kbOut, policyStore, trustStore, auditLog, call, httpVars>>

\* ReadFile, were each document put into docs as soon as it is loaded
ReadFile_PublishesAsLoaded ==
    /\ kbBuild.pc = "file"
    /\ LET b == kbBuild
           entries == b.source.manifests[b.corpus]
       IN  IF entries[b.i].file \in b.source.unreadable
           THEN Fail(b)
           ELSE LET out == Append(b.out, loadCorpus(b.source.manifests, b.corpus)[b.i])
                IN  IF b.i < Len(entries)
                    THEN /\ kbBuild' = [b EXCEPT !.i = b.i + 1, !.out = out]
                         /\ docs' = Append(docs, out[Len(out)])
                         /\ byId' = kbInitById(docs')
                    ELSE /\ kbBuild' =
                               IF b.corpus = "human"
                               THEN Build("manifest", b.source, "technical", 0, <<>>, out)
                               ELSE Build("done", b.source, "technical", 0, <<>>, <<>>)
                         /\ docs' = Append(docs, out[Len(out)])
                         /\ byId' = kbInitById(docs')
    /\ UNCHANGED <<kbOut, policyStore, trustStore, auditLog, call, httpVars>>

\* await readFile(filePath) in the loop of loadCorpus, and out.push
ReadFile ==
    /\ kbBuild.pc = "file"
    /\ LET b == kbBuild
           entries == b.source.manifests[b.corpus]
       IN  IF entries[b.i].file \in b.source.unreadable
           THEN Fail(b)
           ELSE LET out == Append(b.out, loadCorpus(b.source.manifests, b.corpus)[b.i])
                IN  IF b.i < Len(entries)
                    THEN /\ kbBuild' = [b EXCEPT !.i = b.i + 1, !.out = out]
                         /\ UNCHANGED <<docs, byId>>
                    ELSE CorpusLoaded(b, out)
    /\ UNCHANGED <<kbOut, policyStore, trustStore, auditLog, call, httpVars>>

BuildInit ==
    /\ docs = <<>>
    /\ byId = kbInitById(<<>>)
    /\ \E source \in BuildSources : kbBuild = Build("manifest", source, "human", 0, <<>>, <<>>)
    /\ policyStore = [c \in Corpora |-> None]
    /\ trustStore = [r \in Requesters |-> None]
    /\ auditLog = <<>>
    /\ sessions = EmptyMap
    /\ transports = <<>>
    /\ issued = {}
    /\ creates = EmptyMap
    /\ lastHttp = NoHttp
    /\ kbOut = NoRead
    /\ call = [s \in SessionIds |-> IdleCall]

BuildNext ==
    \/ ReadManifest
    \/ ReadFile
    \/ \E corpus \in OptCorpora : KbList(corpus, None, None)
    \/ \E id \in {"h1", "t1", ""} : KbGet(id, None)
    \/ \E corpus \in OptCorpora : KbSearch(<<"a">>, corpus, None, None)
    \/ \E audience \in Corpora : KbRender(<<"a">>, audience)

BuildSpec == BuildInit /\ [][BuildNext]_vars

(***************************************************************************)
(* What the claims speak of.                                               *)
(***************************************************************************)
\* the calls on which enforceKbAccess has returned its decision
DecidedCalls == {s \in SessionIds : call[s].access # None}

\* the values enforceKbAccess holds in policy and requester
PolicyOf(c) == getCorpusPolicy(c.policyRes[1])

RequesterOf(c) == getRequesterTrust(c.requesterRes[1])

\* the lookup gave no row: it failed, or the table has none
NoPolicyRow(c) == c.policyRes[1].error \/ c.policyRes[1].data = None

NoTrustRow(c) == c.requesterRes[1].error \/ c.requesterRes[1].data = None

\* the trust lookup returned a row whose status is blocked
ReadBlocked(c) ==
    /\ c.requesterRes[1].data # None
    /\ c.requesterRes[1].data[1].status = Some("blocked")

\* the row of the trust store for the call's requester is a blocked one
StoredBlocked(c) ==
    LET row == trustStore[<<c.args[1].requester_type, c.args[1].requester_id>>]
    IN  row # None /\ row[1].status = Some("blocked")

(***************************************************************************)
(* C1: whenever the trust lookup returned a requester whose status is      *)
(* blocked, the decision is deny with reason "requester_blocked", whatever *)
(* the trust score and the corpus threshold, below the threshold included. *)
(***************************************************************************)
C1_BlockedIsDenied ==
    \A s \in DecidedCalls :
        ReadBlocked(call[s]) => call[s].access[1] = [ok |-> FALSE, reason |-> "requester_blocked"]

\* a blocked requester that is also below the corpus threshold
C1_Witness ==
    \E s \in DecidedCalls :
        /\ ReadBlocked(call[s])
        /\ RequesterOf(call[s]).trust_score < PolicyOf(call[s]).min_trust
        /\ call[s].access[1].reason = "requester_blocked"

(***************************************************************************)
(* C2: a requester whose row in the trust store has status blocked is      *)
(* never allowed, whatever the outcome of the trust lookup.                *)
(***************************************************************************)
C2_StoredBlockedNeverAllowed ==
    \A s \in DecidedCalls : StoredBlocked(call[s]) => ~call[s].access[1].ok

(***************************************************************************)
(* C3: a finished call of a gated tool has called the audit logger exactly *)
(* once, with ok true exactly when the operation succeeded and its result  *)
(* was returned.                                                           *)
(***************************************************************************)
C3_ExactlyOneAuditCall ==
    \A s \in SessionIds :
        call[s].pc = "done" =>
            /\ Len(call[s].logged) = 1
            /\ call[s].logged[1].ok = (~call[s].raised /\ ~call[s].result[1].isError)

(***************************************************************************)
(* C4: an active requester whose trust score is at least the corpus        *)
(* threshold is allowed, with reason "allowed".                            *)
(***************************************************************************)
C4_ActiveAtThresholdAllowed ==
    \A s \in DecidedCalls :
        (/\ RequesterOf(call[s]).status = "active"
         /\ RequesterOf(call[s]).trust_score >= PolicyOf(call[s]).min_trust)
            => call[s].access[1] = [ok |-> TRUE, reason |-> "allowed"]

\* an active requester exactly at a positive threshold read from the store
C4_Witness ==
    \E s \in DecidedCalls :
        /\ ~NoTrustRow(call[s])
        /\ ~NoPolicyRow(call[s])
        /\ call[s].requesterRes[1].data[1].status = Some("active")
        /\ RequesterOf(call[s]).trust_score = PolicyOf(call[s]).min_trust
        /\ PolicyOf(call[s]).min_trust > 0
        /\ call[s].access[1].ok

(***************************************************************************)
(* C5: an active requester whose trust score is below the corpus threshold *)
(* is denied, and the reason is "trust_below_threshold:" followed by the   *)
(* threshold, not by the requester's score.                                *)
(***************************************************************************)
C5_BelowThresholdReason ==
    \A s \in DecidedCalls :
        (/\ RequesterOf(call[s]).status = "active"
         /\ RequesterOf(call[s]).trust_score < PolicyOf(call[s]).min_trust)
            => call[s].access[1] =
                  [ ok |-> FALSE,
                    reason |-> "trust_below_threshold:"
                                   \o ToString(PolicyOf(call[s]).min_trust) ]

\* score 1 on a corpus of threshold 2: the reason names 2
C5_Witness ==
    \E s \in DecidedCalls :
        /\ RequesterOf(call[s]).status = "active"
        /\ RequesterOf(call[s]).trust_score = 1
        /\ PolicyOf(call[s]).min_trust = 2
        /\ call[s].access[1].reason = "trust_below_threshold:2"

(***************************************************************************)
(* C6: when the policy lookup fails or finds no row, every requester that  *)
(* is not blocked and has a trust score of at least 0 is allowed.          *)
(***************************************************************************)
C6_PolicyOutageAllows ==
    \A s \in DecidedCalls :
        (/\ NoPolicyRow(call[s])
         /\ RequesterOf(call[s]).status # "blocked"
         /\ RequesterOf(call[s]).trust_score >= 0)
            => call[s].access[1] = [ok |-> TRUE, reason |-> "allowed"]

\* the policy lookup failed on a corpus whose stored threshold is above
\* the requester's score
C6_Witness ==
    \E s \in DecidedCalls :
        /\ call[s].policyRes[1].error
        /\ policyStore[call[s].corpus[1]] # None
        /\ policyStore[call[s].corpus[1]][1].min_trust = Some(MaxTrust)
        /\ ~NoTrustRow(call[s])
        /\ RequesterOf(call[s]).trust_score = 0
        /\ call[s].access[1].ok

(***************************************************************************)
(* C7: when the trust lookup fails or finds no row, the requester is       *)
(* allowed on a corpus whose threshold is at most 0 and denied with the    *)
(* threshold reason on a corpus whose threshold is above 0.                *)
(***************************************************************************)
C7_UnknownRequesterDefault ==
    \A s \in DecidedCalls :
        NoTrustRow(call[s]) =>
            call[s].access[1] =
                IF PolicyOf(call[s]).min_trust <= 0
                THEN [ok |-> TRUE, reason |-> "allowed"]
                ELSE [ ok |-> FALSE,
                       reason |-> "trust_below_threshold:"
                                      \o ToString(PolicyOf(call[s]).min_trust) ]

\* no row for the requester, on a corpus of positive threshold
C7_Witness ==
    \E s \in DecidedCalls :
        /\ ~call[s].requesterRes[1].error
        /\ call[s].requesterRes[1].data = None
        /\ PolicyOf(call[s]).min_trust = 1
        /\ call[s].access[1] = [ok |-> FALSE, reason |-> "trust_below_threshold:1"]

(***************************************************************************)
(* C8: in every call of a corpus tool the index is consulted only after    *)
(* the access decision was obtained, and only when the decision is allow.  *)
(***************************************************************************)
C8_DecisionBeforeIndex ==
    \A s \in SessionIds :
        \A i \in 1..Len(call[s].events) :
            call[s].events[i] = "index" =>
                /\ \E j \in 1..(i - 1) : call[s].events[j] = "enforce"
                /\ call[s].access # None
                /\ call[s].access[1].ok

(***************************************************************************)
(* C9: the outcome of the audit insert never changes what the caller       *)
(* receives: from the await of the insert the handler returns the response *)
(* it had prepared before the insert, whether the insert failed or not,    *)
(* and neither raises nor logs again.                                      *)
(***************************************************************************)
C9_AuditFailureInvisible ==
    [][ \A s \in SessionIds :
            (call[s].pc = "log" /\ call'[s] # call[s]) =>
                /\ call'[s].pc = "done"
                /\ ~call'[s].raised
                /\ call'[s].result = call[s].reply
                /\ call'[s].logged = call[s].logged ]_vars

\* the insert failed and the caller received the successful result
C9_Witness ==
    \E s \in SessionIds :
        /\ call[s].pc = "done"
        /\ call[s].reported = 1
        /\ auditLog = <<>>
        /\ call[s].result = call[s].reply
        /\ ~call[s].result[1].isError

(***************************************************************************)
(* C10: the audit record of a denied call has ok = false and the reason of *)
(* the decision as error; a denied get records the requested id and the    *)
(* document's corpus, a denied search or render the query and the corpus.  *)
(* The record of a failed get carries the requested id and the error's     *)
(* message.                                                                *)
(***************************************************************************)
C10_DeniedRecordFields ==
    \A s \in SessionIds :
        LET c == call[s]
            a == c.args[1]
            p == c.logged[1]
        IN  /\ (c.access # None /\ ~c.access[1].ok) =>
                  /\ Len(c.logged) = 1
                  /\ p.ok = FALSE
                  /\ p.error = Some(c.access[1].reason)
                  /\ c.tool = "kb_get" =>
                        /\ p.doc_ids = Some(<<a.id[1]>>)
                        /\ p.corpus = Some(byId[a.id[1]].corpus)
                  /\ c.tool = "kb_search" =>
                        /\ p.query = a.query
                        /\ p.corpus = IF a.corpus = None THEN Some("human") ELSE a.corpus
                  /\ c.tool = "kb_render" =>
                        /\ p.query = a.query
                        /\ p.corpus = a.audience
            /\ (c.tool = "kb_get" /\ c.pc \in {"log", "done"} /\ c.access = None) =>
                  /\ Len(c.logged) = 1
                  /\ p.ok = FALSE
                  /\ p.doc_ids = Some(<<a.id[1]>>)
                  /\ p.error = IF Len(docs) = 0
                               THEN Some("KB not initialized. Call kbInit().")
                               ELSE Some("Unknown document id: " \o a.id[1])

\* a denied get of a technical document, its record inserted
C10_Witness ==
    \E s \in SessionIds :
        /\ call[s].pc = "done"
        /\ call[s].tool = "kb_get"
        /\ call[s].access # None
        /\ ~call[s].access[1].ok
        /\ Len(auditLog) = 1
        /\ auditLog[1].doc_ids = Some(<<"t1">>)
        /\ auditLog[1].corpus = Some("technical")
        /\ auditLog[1].ok = FALSE
        /\ auditLog[1].error = Some(call[s].access[1].reason)

(***************************************************************************)
(* What the session claims speak of.                                       *)
(***************************************************************************)
\* the session token a header carries: its piece that is not blank, if any
HeaderToken(header) ==
    IF header = None THEN None
    ELSE LET pieces == {header[1][i] : i \in 1..Len(header[1])} \ {" "}
         IN  IF pieces = {} THEN None ELSE Some(CHOOSE x \in pieces : TRUE)

\* the payloads that are or contain an initialization call
InitBodies ==
    { Json("object", <<Msg("2.0", "initialize")>>),
      Json("array", <<Msg("2.0", "tools/call"), Msg("2.0", "initialize")>>),
      Json("array", <<Msg("2.0", "initialize"), Msg("2.0", "tools/call")>>) }

\* the ids whose transport has reported close
ClosedIds == {transports[t].sessionId : t \in {u \in 1..Len(transports) : transports[u].closed}}

(***************************************************************************)
(* C11: an id enters the registry only in the step that routes a POST      *)
(* carrying no session token whose payload is or contains an initialize    *)
(* call; a request that carries a token never adds a session.              *)
(***************************************************************************)
C11_CreateOnlyTokenlessInit ==
    [][ \A id \in DOMAIN sessions' \ DOMAIN sessions :
            /\ lastHttp'.outcome = "creating"
            /\ lastHttp'.newId = id
            /\ lastHttp'.method = "POST"
            /\ HeaderToken(lastHttp'.header) = None
            /\ lastHttp'.body \in InitBodies ]_vars

\* a session created by a batch that contains an initialize call, sent with
\* a blank session header
C11_Witness ==
    /\ lastHttp.outcome = "creating"
    /\ lastHttp.newId \in DOMAIN sessions
    /\ lastHttp.header = Some(<<" ">>)
    /\ lastHttp.body = Json("array", <<Msg("2.0", "tools/call"), Msg("2.0", "initialize")>>)

(***************************************************************************)
(* C12: a request whose token names no registered session (unknown or      *)
(* closed), and a POST without token that is no initialize call, are       *)
(* answered with status 400 and change nothing: no session, no tool        *)
(* handler, no audit row.  A tool handler is entered only by a request     *)
(* delegated to the transport of a registered session, and the id of a     *)
(* closed transport is never in the registry again.                        *)
(***************************************************************************)
C12_Rejects(http, registry) ==
    \/ /\ HeaderToken(http.header) # None
       /\ HeaderToken(http.header)[1] \notin DOMAIN registry
    \/ /\ HeaderToken(http.header) = None
       /\ http.method \in {"GET", "DELETE"} \/ http.body \notin InitBodies

C12_RejectedBeforeAnyTool ==
    /\ [](ClosedIds \cap DOMAIN sessions = {})
    /\ [][ /\ (lastHttp' # lastHttp /\ C12_Rejects(lastHttp', sessions)) =>
                /\ lastHttp'.status = 400
                /\ UNCHANGED <<sessions, transports, call, auditLog, issued, creates>>
           /\ (call' # call \/ auditLog' # auditLog) =>
                /\ lastHttp'.outcome = "delegated"
                /\ HeaderToken(lastHttp'.header) # None
                /\ HeaderToken(lastHttp'.header)[1] \in DOMAIN sessions
                /\ HeaderToken(lastHttp'.header)[1] \notin ClosedIds ]_vars

\* a request with the id of a closed session was just rejected, while
\* the other session has a tool call in its handler
C12_Witness ==
    /\ lastHttp.status = 400
    /\ HeaderToken(lastHttp.header) # None
    /\ HeaderToken(lastHttp.header)[1] \in ClosedIds
    /\ lastHttp.body = Json("object", <<Msg("2.0", "tools/call")>>)
    /\ \E s \in DOMAIN sessions : call[s].pc # "idle"

(***************************************************************************)
(* C13: the open sessions have pairwise different ids (each registry       *)
(* entry holds the transport made for its own id, and no two transports    *)
(* were made for the same id), and the step that creates a session adds    *)
(* exactly one entry, under an id that was not in the registry, and        *)
(* leaves every other entry as it was, whatever creates, closes and        *)
(* teardowns are interleaved.                                              *)
(***************************************************************************)
C13_UniqueFreshIds ==
    /\ [](/\ \A id \in DOMAIN sessions :
                /\ sessions[id].transport \in 1..Len(transports)
                /\ transports[sessions[id].transport].sessionId = id
          /\ \A t, u \in 1..Len(transports) :
                transports[t].sessionId = transports[u].sessionId => t = u)
    /\ [][ Len(transports') > Len(transports) =>
              LET id == transports'[Len(transports')].sessionId
              IN  /\ id \notin DOMAIN sessions
                  /\ DOMAIN sessions' = DOMAIN sessions \cup {id}
                  /\ Cardinality(DOMAIN sessions') = Cardinality(DOMAIN sessions) + 1
                  /\ \A k \in DOMAIN sessions : sessions'[k] = sessions[k] ]_vars

\* a second session was created while the first is open and a transport
\* has closed in between
C13_Witness ==
    /\ Cardinality(DOMAIN sessions) = 1
    /\ Len(transports) = 2
    /\ ClosedIds # {}
    /\ lastHttp.outcome = "creating"
    /\ lastHttp.newId \in DOMAIN sessions

(***************************************************************************)
(* C14: no two registry entries hold the same transport, and a request     *)
(* that carries the token of session S is handed to the transport made     *)
(* for S; the tool call it brings is entered on S's server only.           *)
(***************************************************************************)
C14_OwnTransport ==
    /\ [](/\ \A a, b \in DOMAIN sessions :
                sessions[a].transport = sessions[b].transport => a = b
          /\ lastHttp.outcome = "delegated" =>
                /\ HeaderToken(lastHttp.header) # None
                /\ transports[lastHttp.transport].sessionId = HeaderToken(lastHttp.header)[1])
    /\ [][ \A s \in SessionIds :
              call'[s] # call[s] =>
                 /\ HeaderToken(lastHttp'.header) = Some(s)
                 /\ s \in DOMAIN sessions
                 /\ sessions[s].server = s
                 /\ transports[sessions[s].transport].sessionId = s ]_vars

\* two sessions are open and a tool call carrying the second one's token
\* has been delivered
C14_Witness ==
    /\ Cardinality(DOMAIN sessions) = 2
    /\ lastHttp.outcome = "delegated"
    /\ lastHttp.header = Some(<<" ", "s2">>)
    /\ call["s2"].pc # "idle"
    /\ call["s1"].pc = "idle"

(***************************************************************************)
(* C15: removing an id from the registry twice gives what removing it      *)
(* once gives, and removing an id that is not in the registry gives the    *)
(* registry itself; so the registry changes only in steps in which a       *)
(* transport is made or closes for the first time, never when a closed     *)
(* transport reports close again.                                          *)
(***************************************************************************)
C15_DisposeIdempotent ==
    /\ [](\A id \in SessionIds \cup {"zz"} :
             /\ dispose(dispose(sessions, id), id) = dispose(sessions, id)
             /\ id \notin DOMAIN sessions => dispose(sessions, id) = sessions
             /\ id \notin DOMAIN dispose(sessions, id))
    /\ [][ sessions' # sessions => transports' # transports ]_vars

\* one session has been closed, so its id is gone, and another one is open
C15_Witness ==
    /\ ClosedIds # {}
    /\ DOMAIN sessions # {}
    /\ ClosedIds \cap DOMAIN sessions = {}

(***************************************************************************)
(* C16: once a transport has reported close, or a DELETE carrying a        *)
(* session's token has been handed to its transport, the session's id is   *)
(* not in the registry.                                                    *)
(***************************************************************************)
C16_RemovedOnCloseAndDelete ==
    /\ [](ClosedIds \cap DOMAIN sessions = {})
    /\ [][ ( /\ lastHttp' # lastHttp
             /\ lastHttp'.method = "DELETE"
             /\ lastHttp'.outcome = "delegated"
             /\ HeaderToken(lastHttp'.header)[1] \in DOMAIN creates
             /\ creates[HeaderToken(lastHttp'.header)[1]].pc = "done" )
           => HeaderToken(lastHttp'.header)[1] \notin DOMAIN sessions' ]_vars

(***************************************************************************)
(* What the index claims speak of.                                         *)
(***************************************************************************)
\* the positions in docs of the documents a corpus filter lets through
Matching(corpus) ==
    {i \in 1..Len(docs) : corpus = None \/ docs[i].corpus = corpus[1]}

\* the k-th smallest element of a set of positions
RECURSIVE Kth(_, _)
Kth(positions, k) ==
    LET least == CHOOSE i \in positions : \A j \in positions : i <= j
    IN  IF k = 1 THEN least ELSE Kth(positions \ {least}, k - 1)

\* the ids of the first n matching documents, in load order
FirstMatchingIds(corpus, n) ==
    [k \in 1..Min(n, Cardinality(Matching(corpus))) |-> docs[Kth(Matching(corpus), k)].id]

IdsOf(items) == [k \in 1..Len(items) |-> items[k].id]

Blank(query) == \A i \in 1..Len(query) : query[i] = " "

(***************************************************************************)
(* C17: while a client pages through kbList from offset 0 with a limit     *)
(* L >= 1 and a corpus filter, no call fails, the pages fetched so far are *)
(* the first offset + L matching documents in load order, each once, and   *)
(* a page is empty exactly when its offset has reached the total; so the   *)
(* pages up to the empty one are all matching documents.                   *)
(***************************************************************************)
C17_PagesReproduceDocuments ==
    (kbOut.op = "kbList" /\ OrElse(kbOut.limit, 20) >= 1
        /\ (kbOut.walk # None \/ OrElse(kbOut.offset, 0) = 0)) =>
        /\ ~kbOut.result.threw
        /\ kbOut.walk # None
        /\ LET page == kbOut.result.value[1]
               reach == OrElse(kbOut.offset, 0) + OrElse(kbOut.limit, 20)
           IN  /\ IdsOf(kbOut.walk[1]) = FirstMatchingIds(kbOut.corpus, reach)
               /\ \A k \in 1..Len(kbOut.walk[1]) :
                     kbOut.walk[1][k] = ListItem(docs[Kth(Matching(kbOut.corpus), k)])
               /\ (page.results = <<>>) <=> (page.offset >= Cardinality(Matching(kbOut.corpus)))
               /\ page.results = <<>> =>
                     Len(kbOut.walk[1]) = Cardinality(Matching(kbOut.corpus))

\* C17 on an index that holds at least one document
C17_OnLoadedIndex == Len(docs) > 0 => C17_PagesReproduceDocuments

(***************************************************************************)
(* C18: kbList returns, for every limit and offset, total = the number of  *)
(* documents matching the corpus filter and a page of                      *)
(* min(limit, max(0, total - offset)) documents; with 25 documents,        *)
(* limit 10 and offset 20 it returns 5 documents and total 25.             *)
(***************************************************************************)
C18_TotalAndPageSize ==
    kbOut.op = "kbList" =>
        /\ ~kbOut.result.threw
        /\ LET page == kbOut.result.value[1]
               total == Cardinality(Matching(kbOut.corpus))
               rest == IF total > page.offset THEN total - page.offset ELSE 0
           IN  /\ page.total = total
               /\ page.limit = OrElse(kbOut.limit, 20)
               /\ page.offset = OrElse(kbOut.offset, 0)
               /\ Len(page.results) = Min(page.limit, rest)
               /\ (Len(docs) = 25 /\ kbOut.corpus = None /\ kbOut.limit = Some(10)
                      /\ kbOut.offset = Some(20)) =>
                     (Len(page.results) = 5 /\ page.total = 25)

\* C18 on an index that holds at least one document
C18_OnLoadedIndex == Len(docs) > 0 => C18_TotalAndPageSize

(***************************************************************************)
(* C19: a kb_list or kb_search call that omits the corpus argument and     *)
(* succeeds returns what the index gives without corpus filter: the        *)
(* documents of both corpora in load order, and a total that counts them   *)
(* all.                                                                    *)
(***************************************************************************)
C19_OmittedCorpusUnfiltered ==
    \A s \in SessionIds :
        LET c == call[s]
        IN  ( /\ c.pc = "done"
              /\ c.tool \in {"kb_list", "kb_search"}
              /\ c.args[1].corpus = None
              /\ ~c.result[1].isError ) =>
                LET a == c.args[1]
                    all == IF c.tool = "kb_list"
                           THEN kbList(None, Some(OrElse(a.limit, 20)), Some(OrElse(a.offset, 0)))
                           ELSE kbSearch(a.query[1], None, Some(OrElse(a.limit, 20)),
                                         Some(OrElse(a.offset, 0)))
                IN  /\ c.result[1].json[1].total = all.value[1].total
                    /\ c.result[1].json[1].results = all.value[1].results
                    /\ c.tool = "kb_list" => c.result[1].json[1].total = Len(docs)

(***************************************************************************)
(* C20: kbSearch with a query that is empty or only blanks returns         *)
(* total = 0 and no results, for every corpus, limit and offset, and does  *)
(* not fail.                                                               *)
(***************************************************************************)
C20_BlankQueryIsEmpty ==
    (kbOut.op = "kbSearch" /\ Blank(kbOut.query)) =>
        /\ ~kbOut.result.threw
        /\ kbOut.result.value[1].total = 0
        /\ kbOut.result.value[1].results = <<>>

\* C20 on an index that holds at least one document
C20_OnLoadedIndex == Len(docs) > 0 => C20_BlankQueryIsEmpty

(***************************************************************************)
(* C21: kbSearch is a function of its arguments and the index, and no      *)
(* read changes the index: every recorded search result is what kbSearch   *)
(* gives for the same arguments on the index as it is now, and no list,    *)
(* get, search or render step changes docs or byId; so two calls with the  *)
(* same arguments return the same total and the same results in the same   *)
(* order, whatever reads ran in between.                                   *)
(***************************************************************************)
C21_SearchDeterministic ==
    /\ [](kbOut.op = "kbSearch" =>
             kbOut.result = kbSearch(kbOut.query, kbOut.corpus, kbOut.limit, kbOut.offset))
    /\ [][docs' = docs /\ byId' = byId]_vars

\* a search that found two documents was answered after a render
C21_Witness ==
    /\ kbOut.op = "kbSearch"
    /\ ~kbOut.result.threw
    /\ kbOut.result.value[1].total >= 2
    /\ Len(kbOut.result.value[1].results) >= 1

\* the score of the document at a position of docs for a normalized query
ScoreAt(p, q) == SplitCount(Haystack(docs[p]), q)

\* the positions of the documents a search for q in a corpus has to return
Hits(corpus, q) == {p \in Matching(corpus) : ScoreAt(p, q) > 0}

\* the place of a hit in the order by score descending, then load order
RankOf(corpus, q, p) ==
    1 + Cardinality({j \in Hits(corpus, q) :
                        \/ ScoreAt(j, q) > ScoreAt(p, q)
                        \/ ScoreAt(j, q) = ScoreAt(p, q) /\ j < p})

\* the ids of the hits from place from + 1 up to place to, in that order
RankedIds(corpus, q, from, to) ==
    LET hi == Min(to, Cardinality(Hits(corpus, q)))
    IN  IF from >= hi THEN <<>>
        ELSE [k \in 1..(hi - from) |->
                 docs[CHOOSE p \in Hits(corpus, q) : RankOf(corpus, q, p) = from + k].id]

\* a search that returned, for a query that is not blank
SearchAnswered ==
    /\ kbOut.op = "kbSearch"
    /\ ~Blank(kbOut.query)
    /\ ~kbOut.result.threw

NormalizedQuery == ToLowerCase(Trim(kbOut.query))

(***************************************************************************)
(* C22: the results of a search are in order of score descending, two      *)
(* results of equal score are in load order, and the page returned for     *)
(* (limit, offset) is the slice offset+1..offset+limit of the one sequence *)
(* of all hits ordered that way.                                           *)
(***************************************************************************)
C22_ScoreOrderThenLoadOrder ==
    SearchAnswered =>
        LET res == kbOut.result.value[1].results
            pos(i) == CHOOSE p \in 1..Len(docs) : docs[p].id = res[i].id
        IN  /\ \A i, j \in 1..Len(res) :
                  i < j => \/ res[i].score > res[j].score
                           \/ res[i].score = res[j].score /\ pos(i) < pos(j)
            /\ IdsOf(res) = RankedIds(kbOut.corpus, NormalizedQuery,
                                      OrElse(kbOut.offset, 0),
                                      OrElse(kbOut.offset, 0) + OrElse(kbOut.limit, 20))

\* a search returned two documents of equal score, and one returned a
\* technical document ahead of a human one
C22_Witness ==
    /\ SearchAnswered
    /\ LET res == kbOut.result.value[1].results
       IN  /\ Len(res) >= 3
           /\ res[1].corpus = "technical"
           /\ res[3].corpus = "human"
           /\ res[2].score = res[3].score

\* the places of hay at which q begins
MatchStarts(hay, q) ==
    {i \in 1..(Len(hay) - Len(q) + 1) : SubSeq(hay, i, i + Len(q) - 1) = q}

\* the largest number of occurrences of q in hay that do not overlap
Occurrences(hay, q) ==
    LET disjoint == {S \in SUBSET MatchStarts(hay, q) :
                        \A i, j \in S : i < j => j - i >= Len(q)}
    IN  CHOOSE n \in 0..Len(hay) :
            /\ \E S \in disjoint : Cardinality(S) = n
            /\ \A S \in disjoint : Cardinality(S) <= n

\* title, tags joined by blanks and plain text of a document, in lower case
LowerHay(d) == ToLowerCase(d.title \o <<"\n">> \o Join(d.tags, <<" ">>) \o <<"\n">> \o d.text)

\* the positions of the documents that pass the filter and hold the query
Holders(corpus, q) == {p \in Matching(corpus) : Occurrences(LowerHay(docs[p]), q) >= 1}

(***************************************************************************)
(* C23: a search for a query that is not blank returns; its total is the   *)
(* number of documents that pass the corpus filter and hold the            *)
(* normalized query at least once, whatever limit and offset; every        *)
(* result is such a document and reports as score the number of            *)
(* non-overlapping occurrences, which is >= 1; and the page from offset 0  *)
(* with a limit of at least total holds all of them.                       *)
(***************************************************************************)
C23_HitsAreScoredDocuments ==
    (kbOut.op = "kbSearch" /\ ~Blank(kbOut.query)) =>
        /\ ~kbOut.result.threw
        /\ LET out == kbOut.result.value[1]
               holders == Holders(kbOut.corpus, NormalizedQuery)
           IN  /\ out.total = Cardinality(holders)
               /\ \A i \in 1..Len(out.results) :
                     /\ out.results[i].score >= 1
                     /\ \E p \in holders :
                           /\ docs[p].id = out.results[i].id
                           /\ out.results[i].score
                                 = Occurrences(LowerHay(docs[p]), NormalizedQuery)
               /\ (out.offset = 0 /\ out.limit >= out.total) =>
                     {out.results[i].id : i \in 1..Len(out.results)}
                        = {docs[p].id : p \in holders}

\* C23 on an index that holds at least one document
C23_OnLoadedIndex == Len(docs) > 0 => C23_HitsAreScoredDocuments

(***************************************************************************)
(* C24: kbRender(query, audience) fails exactly when the search for the    *)
(* query in the audience's corpus fails; otherwise its sources are the ids *)
(* of the first min(3, total) results of that search from offset 0, in     *)
(* the same order, at most 3, each the id of a document of the audience's  *)
(* corpus.                                                                 *)
(***************************************************************************)
C24_RenderSourcesAreTopThree ==
    kbOut.op = "kbRender" =>
        LET search == kbSearch(kbOut.query, kbOut.corpus, None, Some(0))
        IN  /\ kbOut.result.threw <=> search.threw
            /\ ~kbOut.result.threw =>
                  LET sources == kbOut.result.value[1].sources
                      found == search.value[1]
                      n == IF found.total < 3 THEN found.total ELSE 3
                  IN  /\ Len(sources) = n
                      /\ Len(sources) <= 3
                      /\ \A k \in 1..n : sources[k] = found.results[k].id
                      /\ \A k \in 1..Len(sources) :
                            \A p \in 1..Len(docs) :
                               docs[p].id = sources[k] => docs[p].corpus = kbOut.corpus[1]
                      /\ kbOut.result.value[1].audience = kbOut.corpus[1]

\* a render whose search has more than three hits
C24_Witness ==
    /\ kbOut.op = "kbRender"
    /\ ~kbOut.result.threw
    /\ Len(kbOut.result.value[1].sources) = 3
    /\ kbSearch(kbOut.query, kbOut.corpus, None, None).value[1].total > 3

\* the positions of docs that hold the id
PositionsOf(id) == {p \in 1..Len(docs) : docs[p].id = id}

(***************************************************************************)
(* C25: kbGet with the id of a document of the index returns that          *)
(* document's id, title and corpus and, as content, the file's markdown    *)
(* for format markdown, the markdown stripped to plain text for format     *)
(* text, and the outline of the markdown for format outline_json; without  *)
(* format it answers as for markdown.                                      *)
(***************************************************************************)
C25_GetReturnsDocument ==
    (kbOut.op = "kbGet" /\ PositionsOf(kbOut.id) # {}) =>
        /\ ~kbOut.result.threw
        /\ \E p \in PositionsOf(kbOut.id) :
              LET got == kbOut.result.value[1]
                  raw == Files[docs[p].file]
              IN  /\ got.id = kbOut.id
                  /\ got.title = docs[p].title
                  /\ got.corpus = docs[p].corpus
                  /\ got.format = IF kbOut.format = None THEN "markdown" ELSE kbOut.format[1]
                  /\ got.content =
                        CASE got.format = "markdown" -> [markdown |-> raw]
                          [] got.format = "text" -> [text |-> stripMarkdown(raw)]
                          [] OTHER -> [headings |-> buildOutline(raw)]

\* the plain text of a document whose markdown has headings was returned
C25_Witness ==
    /\ kbOut.op = "kbGet"
    /\ kbOut.format = Some("text")
    /\ ~kbOut.result.threw
    /\ kbOut.result.value[1].corpus = "technical"
    /\ buildOutline(Files["t1.md"]) # <<>>
    /\ kbOut.result.value[1].content # [text |-> Files["t1.md"]]

(***************************************************************************)
(* C26: a kb_get call whose id is the id of no document of the index ends  *)
(* as a tool-level error (isError set) that reports the unknown document   *)
(* id, and no step of any call changes docs or byId, so every later list,  *)
(* get and search finds the index it would have found before.              *)
(***************************************************************************)
C26_UnknownIdIsNotFound ==
    /\ [](\A s \in SessionIds :
             ( /\ call[s].pc = "done"
               /\ call[s].tool = "kb_get"
               /\ PositionsOf(call[s].args[1].id[1]) = {} ) =>
                  /\ call[s].result[1].isError
                  /\ call[s].result[1].text
                        = "kb_get error: Unknown document id: " \o call[s].args[1].id[1])
    /\ [][docs' = docs /\ byId' = byId]_vars

\* C26 on an index that holds at least one document
C26_OnLoadedIndex ==
    /\ [](Len(docs) > 0 =>
            \A s \in SessionIds :
               ( /\ call[s].pc = "done"
                 /\ call[s].tool = "kb_get"
                 /\ PositionsOf(call[s].args[1].id[1]) = {} ) =>
                    /\ call[s].result[1].isError
                    /\ ~call[s].raised
                    /\ call[s].result[1].text
                          = "kb_get error: Unknown document id: " \o call[s].args[1].id[1])
    /\ [][docs' = docs /\ byId' = byId]_vars

(***************************************************************************)
(* What the build claims speak of.                                         *)
(***************************************************************************)
\* the entries of both manifests of the build's source, human first
SourceEntries ==
    kbBuild.source.manifests["human"] \o kbBuild.source.manifests["technical"]

\* nothing of the index can be seen: docs and byId are as at module start
NothingPublished == docs = <<>> /\ DOMAIN byId = {}

(***************************************************************************)
(* C27: once kbInit has returned, no two documents of docs have the same   *)
(* id, and kbGet of the id of each document of docs returns that document: *)
(* its corpus, its title and its markdown.                                 *)
(***************************************************************************)
C27_IdsUnique ==
    kbBuild.pc = "done" =>
        /\ \A p, q \in 1..Len(docs) : docs[p].id = docs[q].id => p = q
        /\ \A p \in 1..Len(docs) :
              LET got == kbGet(docs[p].id, Some("markdown"))
              IN  /\ ~got.threw
                  /\ got.value[1].corpus = docs[p].corpus
                  /\ got.value[1].title = docs[p].title
                  /\ got.value[1].content = [markdown |-> docs[p].markdown]

(***************************************************************************)
(* C28: the index is published in one step.  While kbInit is running, and  *)
(* after it has failed on a manifest or a file, docs and byId are as at    *)
(* module start and every read that was answered was answered with the     *)
(* not-initialized error; docs changes only in the step in which kbInit    *)
(* returns, to the documents of all entries of both manifests in load      *)
(* order; and in every state byId maps exactly the ids of docs, each to a  *)
(* document of docs with that id.                                          *)
(***************************************************************************)
C28_PublishedAtomically ==
    /\ [](/\ kbBuild.pc # "done" => NothingPublished
          /\ kbBuild.pc = "done" =>
                /\ Len(docs) = Len(SourceEntries)
                /\ \A p \in 1..Len(docs) :
                      /\ docs[p].id = SourceEntries[p].id
                      /\ docs[p].file = SourceEntries[p].file
                      /\ docs[p].corpus =
                            IF p <= Len(kbBuild.source.manifests["human"])
                            THEN "human" ELSE "technical"
          /\ DOMAIN byId = {docs[p].id : p \in 1..Len(docs)}
          /\ \A id \in DOMAIN byId : \E p \in 1..Len(docs) : docs[p] = byId[id]
          /\ (kbOut.op # "" /\ ~kbOut.result.threw) => kbBuild.pc = "done")
    /\ [][ (docs' # docs \/ byId' # byId) =>
              (kbBuild.pc # "done" /\ kbBuild'.pc = "done" /\ docs = <<>>) ]_vars

\* the human corpus was loaded, the build then failed on the technical
\* corpus, and a list was asked for afterwards
C28_Witness ==
    /\ kbBuild.pc = "failed"
    /\ kbBuild.corpus = "technical"
    /\ Len(kbBuild.source.manifests["human"]) >= 2
    /\ kbOut.op = "kbList"
    /\ kbOut.result.threw

(***************************************************************************)
(* C29: kbInit does not return, and nothing is published, when an entry    *)
(* of a manifest has an empty id or an empty title; an entry without tags  *)
(* is accepted and gives a document with no tags.                          *)
(***************************************************************************)
C29_InvalidEntryFailsBuild ==
    /\ (\E k \in 1..Len(SourceEntries) :
           SourceEntries[k].id = "" \/ SourceEntries[k].title = <<>>) =>
          (kbBuild.pc # "done" /\ NothingPublished)
    /\ kbBuild.pc = "done" =>
          \A p \in 1..Len(docs) :
             /\ docs[p].id # ""
             /\ docs[p].title # <<>>
             /\ SourceEntries[p].tags = None => docs[p].tags = <<>>

(***************************************************************************)
(* C30: a POST whose body is not valid JSON is answered with status 400    *)
(* whatever its session header, and the step changes nothing else: no      *)
(* session is created or removed, no transport is handed the request, no   *)
(* tool handler is entered, no audit row is written.  The status 400 is    *)
(* not the answer of a tool call, which the transport gives.               *)
(***************************************************************************)
C30_InvalidJsonRejected ==
    [][ ( /\ lastHttp' # lastHttp
          /\ lastHttp'.method = "POST"
          /\ lastHttp'.body.raw = "invalid" ) =>
            /\ lastHttp'.status = 400
            /\ lastHttp'.outcome # "delegated"
            /\ lastHttp'.outcome # "creating"
            /\ lastHttp'.transport = 0
            /\ lastHttp'.newId = ""
            /\ UNCHANGED <<sessions, transports, call, auditLog, issued, creates>> ]_vars

\* a body that is not JSON arrived with the token of an open, initialized
\* session and was rejected
C30_Witness ==
    /\ lastHttp.method = "POST"
    /\ lastHttp.body.raw = "invalid"
    /\ lastHttp.status = 400
    /\ lastHttp.header = Some(<<"s1">>)
    /\ "s1" \in DOMAIN sessions
    /\ transports[sessions["s1"].transport].initialized

(***************************************************************************)
(* C34: a POST without session token whose body is a batch creates a       *)
(* session if and only if some element of the batch, at whatever place,    *)
(* is an initialize call; a batch without such an element, the empty       *)
(* batch and the empty body are answered with status 400 and create no     *)
(* session.                                                                *)
(***************************************************************************)
C34_HasInit(body) ==
    /\ body.raw = "json"
    /\ body.kind = "array"
    /\ \E i \in 1..Len(body.items) :
          body.items[i] = [jsonrpc |-> "2.0", method |-> "initialize"]

C34_BatchWithInitCreates ==
    [][ ( /\ lastHttp' # lastHttp
          /\ lastHttp'.method = "POST"
          /\ HeaderToken(lastHttp'.header) = None
          /\ \/ lastHttp'.body.raw = "empty"
             \/ lastHttp'.body.raw = "json" /\ lastHttp'.body.kind = "array" ) =>
            IF C34_HasInit(lastHttp'.body)
            THEN /\ lastHttp'.outcome = "creating"
                 /\ DOMAIN sessions' = DOMAIN sessions \cup {lastHttp'.newId}
                 /\ lastHttp'.newId \notin DOMAIN sessions
            ELSE /\ lastHttp'.status = 400
                 /\ sessions' = sessions
                 /\ transports' = transports ]_vars

\* a batch whose second element is the initialize call has created a session
C34_Witness ==
    /\ lastHttp.outcome = "creating"
    /\ lastHttp.header = None
    /\ lastHttp.body = Json("array", <<Msg("2.0", "tools/call"), Msg("2.0", "initialize")>>)
    /\ lastHttp.newId \in DOMAIN sessions

(***************************************************************************)
(* C35: the registry changes only in a step that creates a session, which  *)
(* adds the new id and leaves the other entries, or in a step in which a   *)
(* transport closes, which removes the id that transport was made for and  *)
(* leaves the other entries; a request routed to a session, a rejected     *)
(* request and a tool call entered leave the registry as it was.           *)
(***************************************************************************)
C35_OnlyCreateAndDispose ==
    [][ /\ sessions' # sessions =>
              \/ /\ Len(transports') = Len(transports) + 1
                 /\ lastHttp'.outcome = "creating"
                 /\ DOMAIN sessions' = DOMAIN sessions \cup {lastHttp'.newId}
                 /\ \A k \in DOMAIN sessions : sessions'[k] = sessions[k]
              \/ \E t \in 1..Len(transports) :
                    /\ ~transports[t].closed
                    /\ transports'[t].closed
                    /\ DOMAIN sessions' = DOMAIN sessions \ {transports[t].sessionId}
                    /\ \A k \in DOMAIN sessions' : sessions'[k] = sessions[k]
        /\ (lastHttp'.status = 400 /\ lastHttp' # lastHttp) => sessions' = sessions
        /\ call' # call => sessions' = sessions ]_vars

\* one of two open sessions was closed and the other one is still there
C35_Witness ==
    /\ Len(transports) = 2
    /\ \E t, u \in 1..Len(transports) :
          /\ transports[t].closed
          /\ transports[t].sessionId \notin DOMAIN sessions
          /\ ~transports[u].closed
          /\ transports[u].initialized
          /\ transports[u].sessionId \in DOMAIN sessions

(***************************************************************************)
(* C36: once the request that created a session has ended, the session's   *)
(* id is in the registry only if the transport was connected and answered  *)
(* the initialize request; a create that ended in an error has left no     *)
(* entry.                                                                  *)
(***************************************************************************)
C36_NoEntryAfterFailedCreate ==
    \A id \in DOMAIN creates :
        (creates[id].pc = "done" /\ id \in DOMAIN sessions) =>
            /\ creates[id].status = 200
            /\ transports[creates[id].transport].started

(***************************************************************************)
(* Requests in flight on two sessions.  Clients open sessions and send     *)
(* tool calls to them; every await of a handler (the policy row, the trust *)
(* row, the insert) is answered in a step of its own, so the handlers of   *)
(* different requests interleave at their awaits.  Nothing obliges an      *)
(* awaited reply to arrive.                                                *)
(***************************************************************************)
ConcurrentHeaders == {None, Some(<<"s1">>), Some(<<"s2">>)}

ConcurrentBodies == {Json("object", <<InitMsg>>), Json("object", <<CallMsg>>)}

ConcurrentNext ==
    \/ \E header \in ConcurrentHeaders, body \in ConcurrentBodies : PostMcp(header, body)
    \/ \E id \in SessionIds : ConnectReply(id)
    \/ \E id \in SessionIds : HandleReply(id)
    \/ \E s \in SessionIds : PolicyReply(s)
    \/ \E s \in SessionIds : TrustReply(s)
    \/ \E s \in SessionIds : LogReply(s)

ConcurrentSpec == SessionInit /\ [][ConcurrentNext]_vars

\* the external calls of the request on session s return
Returns(s) ==
    /\ WF_vars(PolicyReply(s))
    /\ WF_vars(TrustReply(s))
    /\ WF_vars(LogReply(s))

\* the external calls of the request on s2 return; those of the request on
\* s1 may stay unanswered for ever
ConcurrentFairSpec == ConcurrentSpec /\ Returns("s2")

(***************************************************************************)
(* C38: the audit row written for a call carries the id of the session the *)
(* call arrived through.  A call is entered by the transport of the        *)
(* session named in the request's mcp-session-id header, and the row that  *)
(* the insert of that call appends has that id as session_id, whatever     *)
(* other calls are in flight and whatever sessions exist or are created    *)
(* meanwhile.                                                              *)
(***************************************************************************)
C38_RecordCarriesOwnSession ==
    [][ /\ \A s \in SessionIds :
              (call[s].pc = "idle" /\ call'[s].pc # "idle") =>
                  /\ lastHttp'.outcome = "delegated"
                  /\ HeaderToken(lastHttp'.header) = Some(s)
        /\ auditLog' # auditLog =>
              \E s \in SessionIds :
                  /\ call[s].pc = "log"
                  /\ call'[s].pc = "done"
                  /\ \A o \in SessionIds \ {s} : call'[o] = call[o]
                  /\ Len(auditLog') = Len(auditLog) + 1
                  /\ SubSeq(auditLog', 1, Len(auditLog)) = auditLog
                  /\ auditLog'[Len(auditLog')].session_id = s
                  /\ auditLog'[Len(auditLog')].ok = call[s].logged[Len(call[s].logged)].ok
                  /\ auditLog'[Len(auditLog')].corpus = call[s].logged[Len(call[s].logged)].corpus
      ]_vars

\* the call on the session created first was recorded after the other
\* session had been created and while that session's call was in flight
C38_Witness ==
    /\ Len(transports) = 2
    /\ \E s \in SessionIds :
          /\ transports[1].sessionId = s
          /\ call[s].pc = "done"
          /\ Len(auditLog) = 1
          /\ auditLog[1].session_id = s
          /\ \E o \in SessionIds \ {s} : call[o].pc \in {"policy", "trust", "log"}

(***************************************************************************)
(* C32: a request whose own external calls return completes with a         *)
(* response, also when the external calls of the request on the other      *)
(* session never return; what it waits for is never held by that other     *)
(* request.                                                                *)
(***************************************************************************)
C32_InFlight(s) == call[s].pc \in {"policy", "trust", "log"}

MaxAudit == 2

\* the arguments object of a tools/call request: every property may be
\* absent
RawArgs(requester_type, requester_id, corpus, limit, offset, query) ==
    [ requester_type |-> requester_type, requester_id |-> requester_id, corpus |-> corpus,
      limit |-> limit, offset |-> offset, query |-> query ]

BaseArgs == RawArgs(Some("agent"), Some("A1"), None, None, None, Some(<<"a">>))

\* the base arguments and those that differ from them in one property
RawArgsChoices ==
    {BaseArgs}
        \cup {[BaseArgs EXCEPT !.requester_type = v] : v \in {None, Some("")}}
        \cup {[BaseArgs EXCEPT !.requester_id = v] : v \in {None, Some("")}}
        \cup {[BaseArgs EXCEPT !.corpus = v] : v \in {Some("internal")}}
        \cup {[BaseArgs EXCEPT !.limit = v] : v \in {Some(0), Some(101)}}
        \cup {[BaseArgs EXCEPT !.offset = v] : v \in {Some(0 - 1)}}
        \cup {[BaseArgs EXCEPT !.query = v] : v \in {None, Some(<<>>), Some(<<" ">>)}}

\* inputSchema, were limit: z.number().int().optional()
inputSchema_AnyLimit(tool, raw) ==
    /\ raw.requester_type # None /\ raw.requester_type[1] # ""
    /\ raw.requester_id # None /\ raw.requester_id[1] # ""
    /\ raw.corpus # None => raw.corpus[1] \in {"human", "technical"}
    /\ raw.offset # None => raw.offset[1] >= 0
    /\ tool = "kb_search" => (raw.query # None /\ Len(raw.query[1]) >= 1)

\* the inputSchema of kb_list and of kb_search
inputSchema(tool, raw) ==
    /\ raw.requester_type # None /\ raw.requester_type[1] # ""
    /\ raw.requester_id # None /\ raw.requester_id[1] # ""
    /\ raw.corpus # None => raw.corpus[1] \in {"human", "technical"}
    /\ raw.limit # None => (raw.limit[1] >= 1 /\ raw.limit[1] <= 100)
    /\ raw.offset # None => raw.offset[1] >= 0
    /\ tool = "kb_search" => (raw.query # None /\ Len(raw.query[1]) >= 1)

\* the arguments the handler is called with: the properties of the schema
ParsedArgs(tool, raw) ==
    Args(<<raw.requester_type[1], raw.requester_id[1]>>, raw.corpus, raw.limit, raw.offset,
         None, None, IF tool = "kb_search" THEN raw.query ELSE None, None)

\* the call is answered with an invalid-arguments error and the handler is
\* not called
InvalidArguments(c, tool, raw) ==
    [c EXCEPT !.pc = "done", !.tool = tool, !.args = Some(raw),
              !.result = Some(Response(TRUE, "Invalid arguments for tool " \o tool, None))]

\* a tools/call request for kb_list or kb_search arrives on session s
CallTool(s) ==
    /\ s \in DOMAIN sessions
    /\ call[s].pc = "idle"
    /\ \E tool \in {"kb_list", "kb_search"}, raw \in RawArgsChoices :
          call' = [call EXCEPT ![s] =
                      IF inputSchema(tool, raw) THEN Enter(@, tool, ParsedArgs(tool, raw))
                      ELSE InvalidArguments(@, tool, raw)]
    /\ UNCHANGED <<kbOut, docs, byId, kbBuild, policyStore, trustStore, auditLog, httpVars>>

\* the response was sent; the session takes its next call
NextCall(s) ==
    /\ call[s].pc = "done"
    /\ Len(auditLog) < MaxAudit
    /\ call' = [call EXCEPT ![s] = IdleCall]
    /\ UNCHANGED <<kbOut, docs, byId, kbBuild, policyStore, trustStore, auditLog, httpVars>>

StorePolicyRows ==
    {None, Some(PolicyRow(Some(0), Some("internal"))), Some(PolicyRow(Some(3), Some("public"))),
     Some(PolicyRow(Some(3), Some("internal")))}

StoreTrustRows ==
    {None, Some(TrustRow(Some(2), Some("active"))), Some(TrustRow(Some(3), Some("active"))),
     Some(TrustRow(Some(3), Some("blocked")))}

\* the row of corpus human in kb_corpus_policy is written or deleted
SetPolicy ==
    /\ \E row \in StorePolicyRows : policyStore' = [policyStore EXCEPT !["human"] = row]
    /\ UNCHANGED <<kbOut, docs, byId, kbBuild, trustStore, auditLog, call, httpVars>>

\* the row of a requester in requester_trust is written or deleted
SetTrust ==
    /\ \E r \in Requesters, row \in StoreTrustRows :
          trustStore' = [trustStore EXCEPT ![r] = row]
    /\ UNCHANGED <<kbOut, docs, byId, kbBuild, policyStore, auditLog, call, httpVars>>

StoreInit ==
    /\ docs = kbInitDocs(ManifestsFull)
    /\ byId = kbInitById(kbInitDocs(ManifestsFull))
    /\ kbBuild = Built(ManifestsFull)
    /\ policyStore = [c \in Corpora |-> None]
    /\ trustStore = [r \in Requesters |-> None]
    /\ auditLog = <<>>
    /\ sessions = [id \in {"s1"} |-> Session(1, "s1")]
    /\ transports = << ActiveTransport("s1") >>
    /\ issued = {"s1"}
    /\ creates = EmptyMap
    /\ lastHttp = NoHttp
    /\ kbOut = NoRead
    /\ call = [s \in SessionIds |-> IdleCall]

StoreNext ==
    \/ \E s \in SessionIds : CallTool(s)
    \/ \E s \in SessionIds : PolicyReply(s)
    \/ \E s \in SessionIds : TrustReply(s)
    \/ \E s \in SessionIds : LogReply(s)
    \/ \E s \in SessionIds : NextCall(s)
    \/ SetPolicy
    \/ SetTrust

StoreSpec == StoreInit /\ [][StoreNext]_vars

(***************************************************************************)
(* C31: a call whose arguments do not satisfy the tool's inputSchema is    *)
(* answered with an error before the handler runs: no policy or trust      *)
(* lookup is issued, the index is not read, no audit row is prepared or    *)
(* appended and the stores are as they were; a handler only ever runs      *)
(* with a non-empty requester type and id, a corpus of the enum, a limit   *)
(* in 1..100, an offset of at least 0 and, for kb_search, a non-empty      *)
(* query.                                                                  *)
(***************************************************************************)
C31_Rejected(s) ==
    /\ call[s].pc = "done"
    /\ call[s].events = <<>>
    /\ call[s].access = None

C31_WellFormed(tool, a) ==
    /\ a.requester_type # "" /\ a.requester_id # ""
    /\ a.corpus \in {None, Some("human"), Some("technical")}
    /\ a.limit = None \/ a.limit[1] \in 1..100
    /\ a.offset = None \/ a.offset[1] >= 0
    /\ tool = "kb_search" => (a.query # None /\ a.query[1] # <<>>)

C31_InvalidArgumentsNoEffect ==
    /\ [](\A s \in SessionIds :
             IF C31_Rejected(s)
             THEN /\ call[s].result # None /\ call[s].result[1].isError
                  /\ call[s].policyRes = None /\ call[s].requesterRes = None
                  /\ call[s].logged = <<>> /\ call[s].corpus = None
                  /\ \/ call[s].args[1].requester_type \in {None, Some("")}
                     \/ call[s].args[1].requester_id \in {None, Some("")}
                     \/ call[s].args[1].corpus = Some("internal")
                     \/ call[s].args[1].limit \in {Some(0), Some(101)}
                     \/ call[s].args[1].offset = Some(0 - 1)
                     \/ call[s].args[1].query \in {None, Some(<<>>)}
             ELSE call[s].pc # "idle" => C31_WellFormed(call[s].tool, call[s].args[1]))
    /\ [][\A s \in SessionIds :
             (call[s].pc = "idle" /\ C31_Rejected(s)') =>
                 /\ auditLog' = auditLog
                 /\ policyStore' = policyStore /\ trustStore' = trustStore
                 /\ docs' = docs /\ byId' = byId]_vars

\* a kb_list call with limit 101 was rejected
C31_Witness ==
    /\ C31_Rejected("s1")
    /\ call["s1"].tool = "kb_list"
    /\ call["s1"].args[1].limit = Some(101)

(***************************************************************************)
(* C33: the decision of a call is made on the rows the stores hold when    *)
(* the call asks for them, whatever was decided before: after a denial     *)
(* with trust_below_threshold:3 the requester's score is set to 3 and the  *)
(* next call is allowed; after a requester is set to blocked the next call *)
(* is denied with requester_blocked.                                       *)
(***************************************************************************)
C33_Key(c) == <<c.args[1].requester_type, c.args[1].requester_id>>

C33_DecidesOnCurrentValues ==
    [][\A s \in SessionIds :
          /\ (call[s].pc = "policy" /\ call'[s].pc = "trust") =>
                \/ call'[s].policyRes[1].error
                \/ call'[s].policyRes[1].data = policyStore[call[s].corpus[1]]
          /\ (call[s].pc = "trust" /\ call'[s].pc # "trust"
                 /\ ~call'[s].requesterRes[1].error) =>
                LET row == trustStore[C33_Key(call[s])]
                    min == getCorpusPolicy(call[s].policyRes[1]).min_trust
                IN  /\ call'[s].requesterRes[1].data = row
                    /\ (row # None /\ row[1].status = Some("blocked")) =>
                           call'[s].access[1] = Decision(FALSE, "requester_blocked")
                    /\ (row # None /\ row[1].status = Some("active")
                           /\ row[1].trust_score[1] >= min) =>
                           call'[s].access[1] = Decision(TRUE, "allowed")
                    /\ (row # None /\ row[1].status = Some("active")
                           /\ row[1].trust_score[1] < min) =>
                           call'[s].access[1] = Decision(FALSE, BelowThreshold(min))
      ]_vars

\* a call was denied with trust_below_threshold:3, the score was raised to
\* 3 and the next call of the same requester on the same corpus was allowed
C33_Witness ==
    /\ Len(auditLog) = 2
    /\ ~auditLog[1].ok /\ auditLog[1].error = Some("trust_below_threshold:3")
    /\ auditLog[2].ok
    /\ auditLog[2].requester_id = auditLog[1].requester_id
    /\ auditLog[2].corpus = auditLog[1].corpus
    /\ auditLog[2].format = auditLog[1].format
    /\ trustStore[<<"agent", "A1">>] = Some(TrustRow(Some(3), Some("active")))
    /\ policyStore["human"] # None /\ policyStore["human"][1].min_trust = Some(3)

(***************************************************************************)
(* C39: the decision is a function of the requester's status and score and *)
(* of the corpus's min_trust; the mode of the corpus does not enter it.  A *)
(* corpus of mode internal with min_trust 0 is open to a requester that    *)
(* has no row.                                                             *)
(***************************************************************************)
C39_Decide(status, score, min) ==
    IF status = "blocked" THEN Decision(FALSE, "requester_blocked")
    ELSE IF score < min THEN Decision(FALSE, "trust_below_threshold:" \o ToString(min))
    ELSE Decision(TRUE, "allowed")

C39_Internal(c) ==
    /\ ~c.policyRes[1].error
    /\ c.policyRes[1].data = Some(PolicyRow(Some(0), Some("internal")))

C39_Unknown(c) == ~c.requesterRes[1].error /\ c.requesterRes[1].data = None

C39_ModeDoesNotDecide ==
    \A s \in DecidedCalls :
        LET c == call[s]
        IN  /\ c.access[1] = C39_Decide(RequesterOf(c).status, RequesterOf(c).trust_score,
                                        PolicyOf(c).min_trust)
            /\ (C39_Internal(c) /\ C39_Unknown(c)) => c.access[1].ok

\* an unknown requester was given the list of a corpus of mode internal
C39_Witness ==
    \E s \in DecidedCalls :
        /\ C39_Internal(call[s])
        /\ C39_Unknown(call[s])
        /\ call[s].pc = "done"
        /\ call[s].result # None /\ ~call[s].result[1].isError

(***************************************************************************)
(* C37: a gated tool call obtains the decision, then (when allowed) reads  *)
(* the index, then calls the audit logger, and only when the logger has    *)
(* returned is the response handed back: no audit call comes before the    *)
(* decision, and no response leaves without the audit call having          *)
(* returned.                                                               *)
(***************************************************************************)
C37_Order(c) ==
    IF c.access # None /\ c.access[1].ok THEN <<"enforce", "index", "log">>
    ELSE <<"enforce", "log">>

C37_DecisionIndexAuditResponse ==
    /\ [](\A s \in SessionIds :
             /\ \A i \in 1..Len(call[s].events) :
                   call[s].events[i] = "log" =>
                       \E j \in 1..(i - 1) : call[s].events[j] = "enforce"
             /\ call[s].result # None =>
                   /\ call[s].pc = "done"
                   /\ call[s].events = C37_Order(call[s])
                   /\ Len(call[s].logged) = 1)
    /\ [][\A s \in SessionIds :
             (call[s].result = None /\ call'[s].result # None) =>
                 /\ call[s].pc = "log"
                 /\ call'[s].result = call[s].reply]_vars

\* C37 for kb_list, kb_search and kb_render on an index that holds at least
\* one document
C37_OnLoadedIndexExceptGet ==
    /\ [](\A s \in SessionIds :
             (Len(docs) > 0 /\ call[s].tool # "kb_get") =>
                 /\ \A i \in 1..Len(call[s].events) :
                       call[s].events[i] = "log" =>
                           \E j \in 1..(i - 1) : call[s].events[j] = "enforce"
                 /\ call[s].result # None =>
                       /\ call[s].pc = "done"
                       /\ call[s].events = C37_Order(call[s])
                       /\ Len(call[s].logged) = 1)
    /\ [][\A s \in SessionIds :
             (Len(docs) > 0 /\ call'[s].tool # "kb_get"
                 /\ call[s].result = None /\ call'[s].result # None) =>
                 /\ call[s].pc = "log"
                 /\ call'[s].result = call[s].reply]_vars

(***************************************************************************)
(* C40: once kbInit has returned, kbList, kbGet and kbSearch do not fail   *)
(* with the not-initialized error; when the manifests hold no document,    *)
(* kbList returns total 0 and no results and kbSearch returns total 0.     *)
(***************************************************************************)
C40_NotInitializedOnlyBeforeBuild ==
    kbBuild.pc = "done" =>
        /\ \A corpus \in OptCorpora :
              /\ ~kbList(corpus, None, None).threw
              /\ ~kbSearch(<<"a">>, corpus, None, None).threw
              /\ docs = <<>> =>
                    /\ kbList(corpus, None, None).value[1].total = 0
                    /\ kbList(corpus, None, None).value[1].results = <<>>
                    /\ kbSearch(<<"a">>, corpus, None, None).value[1].total = 0
        /\ \A id \in {"h1", "zz"} :
              kbGet(id, None).threw => kbGet(id, None).message # NotInitialized

\* C40 for a build whose manifests hold at least one document
C40_OnLoadedIndex ==
    (kbBuild.pc = "done" /\ Len(docs) > 0) =>
        /\ \A corpus \in OptCorpora :
              /\ ~kbList(corpus, None, None).threw
              /\ ~kbSearch(<<"a">>, corpus, None, None).threw
        /\ \A id \in {"h1", "zz"} :
              kbGet(id, None).threw => kbGet(id, None).message # NotInitialized

====
